---------------------------- MODULE Spec2Model ----------------------------
(***************************************************************************)
(* A model of the Cookie Marshal content-script agent: banner scanning     *)
(* with its processed-set (AntiEvasionCookieKiller), the rule-based agent  *)
(* (CookieBannerAgent), the multi-step preference flow, and the hybrid     *)
(* coordinator (HybridCoordinator) with the learning engine (AIEngine).    *)
(*                                                                         *)
(* The components are modelled as separate specifications over disjoint    *)
(* groups of variables; each specification leaves the other groups at      *)
(* their initial values.                                                   *)
(***************************************************************************)
EXTENDS Integers, Sequences, FiniteSets, TLC

(***************************************************************************)
(* Bounds of the model.                                                    *)
(***************************************************************************)
NumNodes == 2
MaxTasks == 2
MaxScans == 3
MaxTicks == 2
MaxButtons == 3
MaxPageButtons == 2
MaxControls == 2
MaxCalls == 2
MaxClicks == 3
HorizonMs == 20000
MaxDeepScans == 2
MaxOutcomes == 52
MaxStoreFailures == 1
MaxExperiences == 3
MaxLoaded == 8
MaxLogCalls == 12
StepsPerHour == 3
MaxCacheSteps == 6
MaxProfiles == 3
MaxStored == 2
MaxPageEvents == 4
MaxOptimSteps == 5

(***************************************************************************)
(* Program constants.                                                      *)
(***************************************************************************)
ThrottleMs == 500
SafeScore == 7            \* rejectScore > 0.7, in tenths
ClickVerifyMs == 1000     \* clickButton: setTimeout(..., 1000)
PhaseTimeoutMs == 3000    \* processBanner: phase timers 1 and 2
maxAttempts == 20         \* waitForPreferencesPage
lowComplexity == 3        \* thresholds.lowComplexity 0.3, in tenths
highComplexity == 7       \* thresholds.highComplexity 0.7, in tenths
confidenceMinimum == 60   \* thresholds.confidenceMinimum 0.6, in hundredths
significantDifference == 20  \* chooseBestResult: 0.2, in hundredths
ParallelTimeoutMs == 2000 \* decideStrategy: timeout of parallel-evaluation
HistoryKeep == 50         \* recordOutcome: slice(-50)
PollMs == 500             \* waitForPreferencesPage: setTimeout(checkForPreferences, 500)
MultiStepTimeoutMs == 10000  \* processBanner: phase timer 3
maxProcessingTime == 2000 \* AIEngine config.maxProcessingTime

Nodes == 1..NumNodes
Tasks == 1..MaxTasks

VARIABLES
  \* ---- AntiEvasionCookieKiller: scanning and the processed-set
  processedBanners,  \* this.processedBanners
  visible,           \* the nodes findAllCookieBanners would accept (page state)
  now,               \* Date.now(), in ms
  lastScanTime,      \* this.lastScanTime
  scanTimeout,       \* this.scanTimeout: a debounced scan is pending
  delayedChecks,     \* number of pending 3 s timers of scheduleDelayedCheck
  scansLeft,         \* scan triggers the run may still take
  task,              \* the running scanForBanners / delayed-check / direct calls
  entered,           \* per node: times the clicking part of processBanner was entered
  returned,          \* per node: method of the last processBanner return
  \* ---- CookieBannerAgent and the learning path: direct dismissal
  btns,              \* the banner's buttons, in document order
  feat,              \* per button: what the scoring functions make of it
  bannerClass,       \* the banner's class attribute
  bannerVisible,     \* isElementVisible(banner)
  apc,               \* position of CookieBannerAgent.processBanner / the learning path
  job,               \* the function the current phase awaits
  losers,            \* functions whose phase timer won: they keep running
  clicks,            \* every clickButton call so far: button and calling function
  aiAction,          \* strategy.action recommended by the learning agent
  guided,            \* processBanner was called by executeAIStrategy
  aresult,           \* result of the call
  \* ---- AntiEvasionCookieKiller.handleMultiStepConsent: the page and the flow
  pageClass,         \* the banner's class attribute
  pbtns,             \* the document's buttons, in document order
  pfeat,             \* per button: what the flow's text tests and selectors make of it
  ctrls,             \* the document's category controls, in document order
  cfeat,             \* per control: what the label tests make of it
  framework,         \* the framework handleFrameworkMultiStep detects
  indicator,         \* a preference-UI indicator is in the document
  shown,             \* isElementVisible(banner)
  fpc,               \* position of handleMultiStepConsent
  attempts,          \* waitForPreferencesPage: attempts
  found,             \* what waitForPreferencesPage resolved with
  steps,             \* configurePreferences: steps
  muts,              \* every disable mutation so far: control and handler
  fclicks,           \* every clickButton call so far: button and caller
  fresult,           \* result of the call
  \* ---- HybridCoordinator.processBanner
  engine,            \* this.aiEngine: absent, or its isInitialized
  storage,           \* localStorage works, or throws on access
  profile,           \* the banner and document measures of the complexity factors
  hclass,            \* the banner's class attribute
  hframework,        \* what detectCookieFramework makes of the banner
  cache,             \* siteComplexityCache entry of the domain
  history,           \* localStorage difficulty_<domain>: attempts
  stats,             \* this.performanceStats
  experiences,       \* experiences recorded by learnFromOutcome
  callsLeft,         \* processBanner calls the run may still take
  hpc,               \* position of processBanner
  complexity,        \* processBanner: complexity
  strategy,          \* processBanner: strategy
  ruleResult,        \* result of the last awaited rule-based run
  aiResult,          \* result of the last awaited processWithAI
  best,              \* chooseBestResult(...).source
  stray,             \* runs a parallel timeout left running
  hlog,              \* the steps of the current call, in order
  hresult,           \* executeStrategy's result, then the value returned
  abandoned,         \* the caller's 5 s timer won the race against this call
  \* ---- the timers of one processBanner call
  clock,             \* time since the call, in ms
  tpc,               \* position of HybridCoordinator.processBanner
  raceSince,         \* when the timer of the parallel race was set
  aiAnalysis,        \* processWithAI: its state, and when its timer was set
  run,               \* the awaited CookieBannerAgent.processBanner: phase and its timer
  verifySince,       \* when the pending click verification timer was set
  flowT,             \* handleMultiStepConsent: stage, poll attempts, poll timer
  expired,           \* the timers that won their race, the polls that ran out
  tresult,           \* what the call returned
  \* ---- AntiEvasionCookieKiller.initialize and performDeepScan: the page
  els,               \* the page's candidate elements, in document order
  elFeat,            \* per element: what the selectors and tests make of it
  sheet,             \* the style element of injectAdvancedScript is in the document
  restyled,          \* the element performDeepScan has forced visible, or 0
  cursor,            \* performDeepScan: the element the loop is at, or 0
  ppc,               \* position of initialize and of the scans
  removed,           \* the banners a click dismissed
  deepScans,         \* performDeepScan calls so far
  effects,           \* the kinds of change the agent has made to the page
  \* ---- AntiEvasionCookieKiller.isValidCookieBanner, containsCookieKeywords, calculateRejectScore: one call each
  cand,              \* the candidate node
  detector,          \* this.multiLanguageDetector is set
  learned,           \* localStorage patterns_<hostname>: successfulPatterns
  scored,            \* the button calculateRejectScore is called on
  content,           \* what containsCookieKeywords(text) returned
  verdict,           \* what isValidCookieBanner(node) returned
  rejectScore,       \* what calculateRejectScore returned, in tenths
  \* ---- HybridCoordinator.recordOutcome: the stored attempts of one domain
  domainAttempts,    \* localStorage difficulty_<domain>: data.attempts, as serial numbers
  ledger,            \* the attempts stored so far, in order
  outcomes,          \* recordOutcome calls so far
  storeFailures,     \* calls in which localStorage threw
  \* ---- QLearningAgent: the Q-table and recordExperience
  qTable,            \* this.qTable: key to Q-value, in 1 / QUnit hundredths
  qExperiences,      \* this.experiences
  qSaved,            \* the qTable entry of localStorage cookieKiller_QLearning
  qCalls,            \* recordExperience calls so far
  \* ---- QLearningAgent.recommendStrategy
  recommended,       \* what recommendStrategy returned last, NoAdvice before the first call
  \* ---- QLearningAgent: the experience log and its persisted copy
  logMem,            \* this.experiences, each experience by its serial number
  logSaved,          \* the experiences entry of localStorage cookieKiller_QLearning
  logCalls,          \* recordExperience calls so far
  \* ---- HybridCoordinator: the complexity cache and its expiry timers
  siteComplexityCache, \* the cached profile of the domain, 0 when none
  expiryTimers,      \* due times of the pending setTimeout deletions
  cacheClock,        \* time in ms
  profiles,          \* profiles computed so far
  lastStore,         \* the last profile stored since the last reset and when
  answer,            \* what the last analyzeSiteComplexity call returned
  \* ---- HybridCoordinator.getHistoricalDifficulty on two stored histories
  storedA,           \* the attempts stored for one domain
  storedB,           \* the attempts stored for another domain
  difficultyA,       \* getHistoricalDifficulty of the first, in tenths as num / den, NoDifficulty before the call
  difficultyB,       \* the same of the second
  \* ---- scanForBanners with and without the PerformanceOptimizer, on one page
  pageNodes,         \* the nodes findAllCookieBanners accepts now (page state)
  domElements,       \* document.querySelectorAll('*').length
  optNow,            \* Date.now(), in ms
  optLastScan,       \* this.lastScanTime, the same in both runs
  scanCache,         \* PerformanceOptimizer.scanCache entries
  directDone,        \* processedBanners of the killer without an optimizer
  cachedDone,        \* processedBanners of the killer with the optimizer
  delayedDue,        \* due times of the pending timers of scheduleDelayedCheck
  pageEvents,        \* page changes and scan triggers the run may still take
  \* ---- the two clickButton implementations on one page
  clickPage,         \* the clicked button: its container and its click listener
  shownK,            \* isElementVisible(banner), page of the killer
  shownA,            \* isElementVisible(banner), page of the agent
  deliveredK,        \* events the button got in the killer's last call
  deliveredA,        \* events the button got in the agent's last call
  cpc,               \* idle, or waiting for the 1000 ms timers
  clickResults,      \* success of each call: killer and agent
  clickCalls,        \* calls so far
  \* ---- AntiEvasionCookieKiller.processBanner
  kCoordinator,      \* this.hybridCoordinator is set
  kProcessed,        \* this.processedBanners
  kpc,               \* idle, hybrid-race, fallback-race, aggressive, multi-step
  kElapsed,          \* ms since the race's timer was set
  kStages,           \* what the current call has run
  kTimedOut,         \* the race whose timer rejected in the current call
  kReturned,         \* how each call settled
  kCalls,            \* calls so far
  \* ---- AntiEvasionCookieKiller.cleanup and the timers and observer set up before it
  tdBanners,         \* banners the page shows
  tdProcessed,       \* this.processedBanners
  tdObserver,        \* the main MutationObserver is connected
  tdScanTimeout,     \* the debounce timer this.scanTimeout is pending
  tdScanIntervals,   \* pending timers of this.scanIntervals
  tdDelayedChecks,   \* pending timers of scheduleDelayedCheck
  tdCleaned,         \* cleanup() has run
  tdLate,            \* processBanner calls made after cleanup: origin and banner
  \* ---- handleCategoryButtons on a preference page
  catContainers,     \* the category containers of the document, in order
  catCursor,         \* containers the loop has handled
  catClicks,         \* containers whose button clickButton was called on
  catResult,         \* none, or the count handleCategoryButtons returned
  \* ---- PerformanceOptimizer.debounce and reset
  debouncedFunctions, \* the Map: key to timer id, 0 for no entry
  dbPending,         \* the timers that are set and not cleared: id, key and function
  dbNextId,          \* the id the next setTimeout returns
  dbRan,             \* the functions run so far: timer id and function
  dbCalls,           \* debounce calls from outside so far
  dbResets           \* reset() calls so far

scanVars == <<processedBanners, visible, now, lastScanTime, scanTimeout,
              delayedChecks, scansLeft, task, entered, returned>>

agentVars == <<btns, feat, bannerClass, bannerVisible, apc, job, losers, clicks,
               aiAction, guided, aresult>>

flowVars == <<pageClass, pbtns, pfeat, ctrls, cfeat, framework, indicator, shown,
              fpc, attempts, found, steps, muts, fclicks, fresult>>

hybridVars == <<engine, storage, profile, hclass, hframework, cache, history, stats,
                experiences, callsLeft, hpc, complexity, strategy, ruleResult, aiResult,
                best, stray, hlog, hresult, abandoned>>

timedVars == <<clock, tpc, raceSince, aiAnalysis, run, verifySince, flowT, expired, tresult>>

pageVars == <<els, elFeat, sheet, restyled, cursor, ppc, removed, deepScans, effects>>

classifyVars == <<cand, detector, learned, scored, content, verdict, rejectScore>>

historyVars == <<domainAttempts, ledger, outcomes, storeFailures>>

learnVars == <<qTable, qExperiences, qSaved, qCalls>>

adviceVars == <<recommended>>

logVars == <<logMem, logSaved, logCalls>>

cacheVars == <<siteComplexityCache, expiryTimers, cacheClock, profiles, lastStore, answer>>

difficultyVars == <<storedA, storedB, difficultyA, difficultyB>>

optimVars == <<pageNodes, domElements, optNow, optLastScan, scanCache, directDone, cachedDone, delayedDue, pageEvents>>

clickVars == <<clickPage, shownK, shownA, deliveredK, deliveredA, cpc, clickResults, clickCalls>>

killerVars == <<kCoordinator, kProcessed, kpc, kElapsed, kStages, kTimedOut, kReturned, kCalls>>

teardownVars == <<tdBanners, tdProcessed, tdObserver, tdScanTimeout, tdScanIntervals, tdDelayedChecks, tdCleaned, tdLate>>

categoryVars == <<catContainers, catCursor, catClicks, catResult>>

debounceVars == <<debouncedFunctions, dbPending, dbNextId, dbRan, dbCalls, dbResets>>

vars == <<scanVars, agentVars, flowVars, hybridVars, timedVars, pageVars, classifyVars, historyVars, learnVars, adviceVars, logVars, cacheVars, difficultyVars, optimVars, clickVars, killerVars, teardownVars, categoryVars, debounceVars>>

nonScanVars == <<agentVars, flowVars, hybridVars, timedVars, pageVars, classifyVars, historyVars, learnVars, adviceVars, logVars, cacheVars, difficultyVars, optimVars, clickVars, killerVars, teardownVars, categoryVars, debounceVars>>
nonAgentVars == <<scanVars, flowVars, hybridVars, timedVars, pageVars, classifyVars, historyVars, learnVars, adviceVars, logVars, cacheVars, difficultyVars, optimVars, clickVars, killerVars, teardownVars, categoryVars, debounceVars>>
nonFlowVars == <<scanVars, agentVars, hybridVars, timedVars, pageVars, classifyVars, historyVars, learnVars, adviceVars, logVars, cacheVars, difficultyVars, optimVars, clickVars, killerVars, teardownVars, categoryVars, debounceVars>>
nonHybridVars == <<scanVars, agentVars, flowVars, timedVars, pageVars, classifyVars, historyVars, learnVars, adviceVars, logVars, cacheVars, difficultyVars, optimVars, clickVars, killerVars, teardownVars, categoryVars, debounceVars>>
nonTimedVars == <<scanVars, agentVars, flowVars, hybridVars, pageVars, classifyVars, historyVars, learnVars, adviceVars, logVars, cacheVars, difficultyVars, optimVars, clickVars, killerVars, teardownVars, categoryVars, debounceVars>>
nonPageVars == <<scanVars, agentVars, flowVars, hybridVars, timedVars, classifyVars, historyVars, learnVars, adviceVars, logVars, cacheVars, difficultyVars, optimVars, clickVars, killerVars, teardownVars, categoryVars, debounceVars>>
nonClassifyVars == <<scanVars, agentVars, flowVars, hybridVars, timedVars, pageVars, historyVars, learnVars, adviceVars, logVars, cacheVars, difficultyVars, optimVars, clickVars, killerVars, teardownVars, categoryVars, debounceVars>>
nonHistoryVars == <<scanVars, agentVars, flowVars, hybridVars, timedVars, pageVars, classifyVars, learnVars, adviceVars, logVars, cacheVars, difficultyVars, optimVars, clickVars, killerVars, teardownVars, categoryVars, debounceVars>>
nonLearnVars == <<scanVars, agentVars, flowVars, hybridVars, timedVars, pageVars, classifyVars, historyVars, adviceVars, logVars, cacheVars, difficultyVars, optimVars, clickVars, killerVars, teardownVars, categoryVars, debounceVars>>
nonAdviceVars == <<scanVars, agentVars, flowVars, hybridVars, timedVars, pageVars, classifyVars, historyVars, learnVars, logVars, cacheVars, difficultyVars, optimVars, clickVars, killerVars, teardownVars, categoryVars, debounceVars>>
nonLogVars == <<scanVars, agentVars, flowVars, hybridVars, timedVars, pageVars, classifyVars, historyVars, learnVars, adviceVars, cacheVars, difficultyVars, optimVars, clickVars, killerVars, teardownVars, categoryVars, debounceVars>>
nonCacheVars == <<scanVars, agentVars, flowVars, hybridVars, timedVars, pageVars, classifyVars, historyVars, learnVars, adviceVars, logVars, difficultyVars, optimVars, clickVars, killerVars, teardownVars, categoryVars, debounceVars>>
nonDifficultyVars == <<scanVars, agentVars, flowVars, hybridVars, timedVars, pageVars, classifyVars, historyVars, learnVars, adviceVars, logVars, cacheVars, optimVars, clickVars, killerVars, teardownVars, categoryVars, debounceVars>>
nonOptimVars == <<scanVars, agentVars, flowVars, hybridVars, timedVars, pageVars, classifyVars, historyVars, learnVars, adviceVars, logVars, cacheVars, difficultyVars, clickVars, killerVars, teardownVars, categoryVars, debounceVars>>
nonClickVars == <<scanVars, agentVars, flowVars, hybridVars, timedVars, pageVars, classifyVars, historyVars, learnVars, adviceVars, logVars, cacheVars, difficultyVars, optimVars, killerVars, teardownVars, categoryVars, debounceVars>>
nonKillerVars == <<scanVars, agentVars, flowVars, hybridVars, timedVars, pageVars, classifyVars, historyVars, learnVars, adviceVars, logVars, cacheVars, difficultyVars, optimVars, clickVars, teardownVars, categoryVars, debounceVars>>
nonTeardownVars == <<scanVars, agentVars, flowVars, hybridVars, timedVars, pageVars, classifyVars, historyVars, learnVars, adviceVars, logVars, cacheVars, difficultyVars, optimVars, clickVars, killerVars, categoryVars, debounceVars>>
nonCategoryVars == <<scanVars, agentVars, flowVars, hybridVars, timedVars, pageVars, classifyVars, historyVars, learnVars, adviceVars, logVars, cacheVars, difficultyVars, optimVars, clickVars, killerVars, teardownVars, debounceVars>>
nonDebounceVars == <<scanVars, agentVars, flowVars, hybridVars, timedVars, pageVars, classifyVars, historyVars, learnVars, adviceVars, logVars, cacheVars, difficultyVars, optimVars, clickVars, killerVars, teardownVars, categoryVars>>

NoJob == [fn |-> "none", order |-> <<>>, pending |-> 0, waits |-> 0,
          timed |-> FALSE, res |-> "none"]
NoResult == [success |-> FALSE, method |-> "none", confidence |-> 0]

\* The groups a specification does not use stay at these values.
ScanIdle ==
  /\ processedBanners = {} /\ visible = {} /\ now = 0 /\ lastScanTime = 0
  /\ scanTimeout = FALSE /\ delayedChecks = 0 /\ scansLeft = 0
  /\ task = <<>> /\ entered = <<>> /\ returned = <<>>

AgentIdle ==
  /\ btns = <<>> /\ feat = <<>> /\ bannerClass = "" /\ bannerVisible = FALSE /\ apc = "idle"
  /\ job = NoJob /\ losers = <<>> /\ clicks = <<>> /\ aiAction = "none"
  /\ guided = FALSE /\ aresult = NoResult

NoFlowResult == [success |-> FALSE, method |-> "none", reason |-> "none"]

FlowIdle ==
  /\ pageClass = "" /\ pbtns = <<>> /\ pfeat = <<>> /\ ctrls = <<>> /\ cfeat = <<>>
  /\ framework = "none" /\ indicator = FALSE /\ shown = FALSE /\ fpc = "idle"
  /\ attempts = 0 /\ found = FALSE /\ steps = <<>> /\ muts = <<>> /\ fclicks = <<>>
  /\ fresult = NoFlowResult

NoComplexity == [num |-> 0, den |-> 0, level |-> "none", recommendation |-> "none"]
NoStrategy == [method |-> "none", reason |-> "none", confidence |-> 0, fallback |-> "none",
               timeout |-> 0]
NoHResult == [success |-> FALSE, method |-> "none", confidence |-> 0,
              buttonClicked |-> FALSE]
NoAIResult == [useAI |-> FALSE, confidence |-> 0, best |-> FALSE, strategy |-> FALSE,
               pending |-> TRUE]

HybridIdle ==
  /\ engine = "absent" /\ storage = "ok" /\ profile = <<>> /\ hclass = ""
  /\ hframework = <<>> /\ cache = NoComplexity /\ history = <<>> /\ stats = <<>>
  /\ experiences = 0 /\ callsLeft = 0 /\ hpc = "idle" /\ complexity = NoComplexity
  /\ strategy = NoStrategy /\ ruleResult = NoHResult /\ aiResult = NoAIResult
  /\ best = "none" /\ stray = {} /\ hlog = <<>> /\ hresult = NoHResult
  /\ abandoned = FALSE

NoRun == [phase |-> 0, state |-> "none", since |-> -1, todo |-> 0, res |-> "none"]
FreshRun == [phase |-> 1, state |-> "start", since |-> -1, todo |-> 0, res |-> "run"]
NoFlowT == [stage |-> "none", attempts |-> 0, pollSince |-> -1]
NoAnalysis == [state |-> "idle", since |-> -1]

TimedIdle ==
  /\ clock = 0 /\ tpc = "idle" /\ raceSince = -1 /\ aiAnalysis = NoAnalysis /\ run = NoRun
  /\ verifySince = -1 /\ flowT = NoFlowT /\ expired = {} /\ tresult = "none"

PageIdle ==
  /\ els = <<>> /\ elFeat = <<>> /\ sheet = FALSE /\ restyled = 0 /\ cursor = 0
  /\ ppc = "idle" /\ removed = {} /\ deepScans = 0 /\ effects = {}

ClassifyIdle ==
  /\ cand = <<>> /\ detector = FALSE /\ learned = {} /\ scored = <<>>
  /\ content = "none" /\ verdict = "none" /\ rejectScore = -1

HistoryIdle ==
  /\ domainAttempts = <<>> /\ ledger = <<>> /\ outcomes = 0 /\ storeFailures = 0

LearnIdle ==
  /\ qTable = <<>> /\ qExperiences = <<>> /\ qSaved = <<>> /\ qCalls = 0

AdviceIdle ==
  /\ recommended = [action |-> "none", method |-> "none", confidence |-> 0, qValue |-> 0]

LogIdle ==
  /\ logMem = <<>> /\ logSaved = <<>> /\ logCalls = 0

CacheIdle ==
  /\ siteComplexityCache = 0 /\ expiryTimers = {} /\ cacheClock = 0 /\ profiles = 0
  /\ lastStore = [profile |-> 0, at |-> 0] /\ answer = 0

DifficultyIdle ==
  /\ storedA = <<>> /\ storedB = <<>>
  /\ difficultyA = [num |-> -1, den |-> 1] /\ difficultyB = [num |-> -1, den |-> 1]

OptimIdle ==
  /\ pageNodes = {} /\ domElements = 0 /\ optNow = 0 /\ optLastScan = 0 /\ scanCache = {}
  /\ directDone = {} /\ cachedDone = {} /\ delayedDue = {} /\ pageEvents = 0

ClickIdle ==
  /\ clickPage = [hasContainer |-> FALSE, listener |-> "none"]
  /\ shownK = FALSE
  /\ shownA = FALSE
  /\ deliveredK = <<>>
  /\ deliveredA = <<>>
  /\ cpc = "idle"
  /\ clickResults = <<>>
  /\ clickCalls = 0

KillerIdle ==
  /\ kCoordinator = FALSE
  /\ kProcessed = {}
  /\ kpc = "idle"
  /\ kElapsed = 0
  /\ kStages = {}
  /\ kTimedOut = "none"
  /\ kReturned = <<>>
  /\ kCalls = 0

TeardownIdle ==
  /\ tdBanners = {}
  /\ tdProcessed = {}
  /\ tdObserver = FALSE
  /\ tdScanTimeout = FALSE
  /\ tdScanIntervals = 0
  /\ tdDelayedChecks = 0
  /\ tdCleaned = FALSE
  /\ tdLate = {}

CategoryIdle ==
  /\ catContainers = <<>>
  /\ catCursor = 0
  /\ catClicks = {}
  /\ catResult = -1

DebounceIdle ==
  /\ debouncedFunctions = <<>>
  /\ dbPending = {}
  /\ dbNextId = 0
  /\ dbRan = <<>>
  /\ dbCalls = 0
  /\ dbResets = 0

(***************************************************************************)
(* Helpers.                                                                *)
(***************************************************************************)
RECURSIVE SetToSeq(_)
\* The elements of a set of nodes in document order (node number).
SetToSeq(S) ==
  IF S = {} THEN <<>>
  ELSE LET m == CHOOSE x \in S : \A y \in S : x <= y
       IN <<m>> \o SetToSeq(S \ {m})

(***************************************************************************)
(* Text: String.prototype.includes, toLowerCase and trim on the labels the *)
(* model uses (letters, blanks, hyphens).                                  *)
(***************************************************************************)
Includes(text, pat) ==
  \E i \in 1..(Len(text) - Len(pat) + 1) : SubSeq(text, i, i + Len(pat) - 1) = pat

IncludesAny(text, pats) == \E p \in pats : Includes(text, p)

UpperChars == <<"A", "B", "C", "D", "E", "F", "G", "H", "I", "J", "K", "L", "M",
                "N", "O", "P", "Q", "R", "S", "T", "U", "V", "W", "X", "Y", "Z",
                "É", "Ä", "Ö", "Ü">>
LowerChars == <<"a", "b", "c", "d", "e", "f", "g", "h", "i", "j", "k", "l", "m",
                "n", "o", "p", "q", "r", "s", "t", "u", "v", "w", "x", "y", "z",
                "é", "ä", "ö", "ü">>

LowerChar(c) ==
  IF \E i \in DOMAIN UpperChars : UpperChars[i] = c
  THEN LowerChars[CHOOSE i \in DOMAIN UpperChars : UpperChars[i] = c]
  ELSE c

RECURSIVE ToLower(_)
ToLower(s) ==
  IF Len(s) = 0 THEN ""
  ELSE LowerChar(SubSeq(s, 1, 1)) \o ToLower(SubSeq(s, 2, Len(s)))

RECURSIVE TrimLeft(_)
TrimLeft(s) ==
  IF Len(s) > 0 /\ SubSeq(s, 1, 1) = " " THEN TrimLeft(SubSeq(s, 2, Len(s))) ELSE s

RECURSIVE TrimRight(_)
TrimRight(s) ==
  IF Len(s) > 0 /\ SubSeq(s, Len(s), Len(s)) = " "
  THEN TrimRight(SubSeq(s, 1, Len(s) - 1)) ELSE s

Trim(s) == TrimRight(TrimLeft(s))

Max(a, b) == IF a >= b THEN a ELSE b
Min(a, b) == IF a <= b THEN a ELSE b

(***************************************************************************)
(* AntiEvasionCookieKiller: scanForBanners, scheduleDelayedCheck,          *)
(* debouncedScan, processBanner.                                           *)
(***************************************************************************)
IdleTask == [kind |-> "none", pc |-> "idle", banners |-> <<>>, cur |-> 0]

\* findAllCookieBanners: isValidCookieBanner keeps the visible nodes that are
\* not in the processed-set.
findAllCookieBanners == SetToSeq({b \in Nodes : b \in visible /\ b \notin processedBanners})

\* processBanner, line 997: mark the node before any await.
MarkProcessedLate(set, b) == set
MarkProcessed(set, b) == set \cup {b}

\* processBanner up to its first await: the validity check is passed by every
\* node, the membership check returns 'already-processed', otherwise the node
\* is marked and the clicking part is entered.
ProcessBannerEnter(b) ==
  IF b \in processedBanners
  THEN /\ returned' = [returned EXCEPT ![b] = "already-processed"]
       /\ UNCHANGED <<processedBanners, entered>>
  ELSE /\ processedBanners' = MarkProcessed(processedBanners, b)
       /\ entered' = [entered EXCEPT ![b] = @ + 1]
       /\ UNCHANGED returned

InitScan ==
  /\ processedBanners = {}
  /\ visible \in SUBSET Nodes
  /\ now = ThrottleMs
  /\ lastScanTime = 0
  /\ scanTimeout = FALSE
  /\ delayedChecks = 0
  /\ scansLeft = MaxScans
  /\ task = [t \in Tasks |-> IdleTask]
  /\ entered = [b \in Nodes |-> 0]
  /\ returned = [b \in Nodes |-> "none"]
  /\ AgentIdle
  /\ FlowIdle
  /\ HybridIdle
  /\ TimedIdle
  /\ PageIdle
  /\ ClassifyIdle
  /\ HistoryIdle
  /\ LearnIdle
  /\ AdviceIdle
  /\ LogIdle
  /\ CacheIdle
  /\ DifficultyIdle
  /\ OptimIdle
  /\ ClickIdle
  /\ KillerIdle
  /\ TeardownIdle
  /\ CategoryIdle
  /\ DebounceIdle

\* Time passes.
Tick ==
  /\ now < ThrottleMs + MaxTicks * (ThrottleMs \div 2)
  /\ now' = now + (ThrottleMs \div 2)
  /\ UNCHANGED <<processedBanners, visible, lastScanTime, scanTimeout,
                 delayedChecks, scansLeft, task, entered, returned>>
  /\ UNCHANGED nonScanVars

\* handleDOMMutations: the page shows a node, the observer asks for a
\* debounced scan (clearTimeout + setTimeout 500).
DomMutation(b) ==
  /\ scansLeft > 0
  /\ visible' = visible \cup {b}
  /\ scanTimeout' = TRUE
  /\ scansLeft' = scansLeft - 1
  /\ UNCHANGED <<processedBanners, now, lastScanTime, delayedChecks, task,
                 entered, returned>>
  /\ UNCHANGED nonScanVars

\* scanForBanners up to its first await: throttle, then the snapshot of
\* findAllCookieBanners.  A throttled call returns at once.
ScanBody(t) ==
  IF now - lastScanTime < ThrottleMs
  THEN UNCHANGED <<lastScanTime, task>>
  ELSE /\ lastScanTime' = now
       /\ task' = [task EXCEPT ![t] =
             [kind |-> "scan", pc |-> "loop", banners |-> findAllCookieBanners, cur |-> 0]]

\* The debounce timer fires: scanForBanners.
DebouncedScanFire(t) ==
  /\ scanTimeout
  /\ task[t].pc = "idle"
  /\ scanTimeout' = FALSE
  /\ ScanBody(t)
  /\ UNCHANGED <<processedBanners, visible, now, delayedChecks, scansLeft,
                 entered, returned>>
  /\ UNCHANGED nonScanVars

\* performImmediateScan and the timers of setupDelayedDetection: scanForBanners.
TimedScan(t) ==
  /\ scansLeft > 0
  /\ task[t].pc = "idle"
  /\ scansLeft' = scansLeft - 1
  /\ ScanBody(t)
  /\ UNCHANGED <<processedBanners, visible, now, scanTimeout, delayedChecks,
                 entered, returned>>
  /\ UNCHANGED nonScanVars

\* The loop of scanForBanners and of the delayed check: the next node of the
\* snapshot; the membership check and the call of processBanner up to its first
\* await happen in one step.
LoopNext(t) ==
  /\ task[t].pc = "loop"
  /\ task[t].banners # <<>>
  /\ LET b == Head(task[t].banners)
     IN IF b \in processedBanners
        THEN /\ task' = [task EXCEPT ![t].banners = Tail(@)]
             /\ UNCHANGED <<processedBanners, entered, returned>>
        ELSE /\ ProcessBannerEnter(b)
             /\ task' = [task EXCEPT ![t].banners = Tail(@), ![t].cur = b,
                                     ![t].pc = "processing"]
  /\ UNCHANGED <<visible, now, lastScanTime, scanTimeout, delayedChecks, scansLeft>>
  /\ UNCHANGED nonScanVars

\* processBanner resolves: the strategies dismissed the banner or did not.
\* scanForBanners then adds the node to the processed-set once more (line 651).
ProcessDone(t, ok) ==
  /\ task[t].pc = "processing"
  /\ LET b == task[t].cur
     IN /\ visible' = IF ok THEN visible \ {b} ELSE visible
        /\ returned' = [returned EXCEPT ![b] = IF ok THEN "success" ELSE "all-failed"]
        /\ processedBanners' = IF task[t].kind = "scan"
                               THEN processedBanners \cup {b} ELSE processedBanners
        /\ task' = [task EXCEPT ![t].cur = 0,
                                ![t].pc = IF task[t].kind = "direct" THEN "idle" ELSE "loop",
                                ![t].kind = IF task[t].kind = "direct" THEN "none" ELSE @]
  /\ UNCHANGED <<now, lastScanTime, scanTimeout, delayedChecks, scansLeft, entered>>
  /\ UNCHANGED nonScanVars

\* The loop is over: scanForBanners schedules the delayed check; the delayed
\* check simply ends.
LoopEnd(t) ==
  /\ task[t].pc = "loop"
  /\ task[t].banners = <<>>
  /\ delayedChecks' = IF task[t].kind = "scan" THEN delayedChecks + 1 ELSE delayedChecks
  /\ task' = [task EXCEPT ![t] = IdleTask]
  /\ UNCHANGED <<processedBanners, visible, now, lastScanTime, scanTimeout,
                 scansLeft, entered, returned>>
  /\ UNCHANGED nonScanVars

\* The 3 s timer of scheduleDelayedCheck fires: snapshot, then the loop.
DelayedCheckFire(t) ==
  /\ delayedChecks > 0
  /\ task[t].pc = "idle"
  /\ delayedChecks' = delayedChecks - 1
  /\ task' = [task EXCEPT ![t] =
        [kind |-> "delayed", pc |-> "loop", banners |-> findAllCookieBanners, cur |-> 0]]
  /\ UNCHANGED <<processedBanners, visible, now, lastScanTime, scanTimeout,
                 scansLeft, entered, returned>>
  /\ UNCHANGED nonScanVars

\* setupStealthDetection: the visibility observer calls processBanner on a
\* node without consulting the processed-set first.
VisibilityCall(t, b) ==
  /\ scansLeft > 0
  /\ task[t].pc = "idle"
  /\ b \in visible
  /\ scansLeft' = scansLeft - 1
  /\ ProcessBannerEnter(b)
  /\ task' = IF b \in processedBanners THEN task
             ELSE [task EXCEPT ![t] =
                    [kind |-> "direct", pc |-> "processing", banners |-> <<>>, cur |-> b]]
  /\ UNCHANGED <<visible, now, lastScanTime, scanTimeout, delayedChecks>>
  /\ UNCHANGED nonScanVars

NextScan ==
  \/ Tick
  \/ \E b \in Nodes : DomMutation(b)
  \/ \E t \in Tasks : DebouncedScanFire(t)
  \/ \E t \in Tasks : TimedScan(t)
  \/ \E t \in Tasks : LoopNext(t)
  \/ \E t \in Tasks, ok \in BOOLEAN : ProcessDone(t, ok)
  \/ \E t \in Tasks : LoopEnd(t)
  \/ \E t \in Tasks : DelayedCheckFire(t)
  \/ \E t \in Tasks, b \in Nodes : VisibilityCall(t, b)

SpecScan == InitScan /\ [][NextScan]_vars

(***************************************************************************)
(* C1: for every node, the clicking part of processBanner is entered at    *)
(* most once, and a processBanner call on a node already in the            *)
(* processed-set returns 'already-processed' without entering it.          *)
(***************************************************************************)
C1_AtMostOnce ==
  /\ \A b \in Nodes : entered[b] <= 1
  /\ \A b \in Nodes : returned[b] = "already-processed" => entered[b] = 1

\* Two callers raced for the same node and the second got 'already-processed'.
C1_Witness ==
  \E b \in Nodes : entered[b] = 1 /\ returned[b] = "already-processed"

(***************************************************************************)
(* CookieBannerAgent: calculateRejectScore, in tenths.                     *)
(***************************************************************************)
Btn(tag, text, aria, title, cls, id) ==
  [tag |-> tag, text |-> text, aria |-> aria, title |-> title, cls |-> cls, id |-> id]

\* The buttons a banner is built from.
ButtonPool ==
  { Btn("button", "Reject All", "", "", "btn", ""),
    Btn("button", "Accept All", "Accept all cookies", "", "btn accept", ""),
    Btn("button", "Got it", "", "", "btn", ""),
    Btn("button", "Manage Preferences", "", "", "btn", ""),
    Btn("a", "No", "", "", "btn", ""),
    Btn("button", "Decline", "", "", "btn-decline", "onetrust-reject-all-handler") }

BannerClasses == {"cookie-banner", "cookiebot", "onetrust-banner-sdk", "notice"}

veryHighPatterns == {"reject all", "decline all", "deny all", "refuse all",
                     "reject all cookies", "decline all cookies", "deny all cookies"}
highPatterns == {"reject cookies", "decline cookies", "deny cookies",
                 "refuse cookies", "no cookies", "block cookies"}
mediumHighPatterns == {"reject", "decline", "deny", "refuse"}
mediumPatterns == {"no", "close", "dismiss", "cancel"}
acceptPatterns == {"accept", "allow", "agree", "enable", "ok", "yes",
                   "accept all", "allow all", "agree to all", "enable all",
                   "accept cookies", "allow cookies", "i agree", "got it"}
ambiguousPatterns == {"continue", "proceed", "next", "confirm", "submit",
                      "save", "apply", "update", "customize"}
contextBonusPatterns == {"cookie preferences", "privacy settings", "manage cookies",
                         "cookie settings", "opt out", "do not track"}

\* button.closest(sel): the button itself, then the banner it sits in.
Closest(button, banner, words) ==
  IncludesAny(button.cls, words) \/ IncludesAny(banner, words)

calculateRejectScore(text, button, banner) ==
  LET normalizedText == Trim(ToLower(text))
      ariaLabel == ToLower(button.aria)
      title     == ToLower(button.title)
      className == ToLower(button.cls)
      score ==
          (IF IncludesAny(normalizedText, veryHighPatterns) THEN 9 ELSE 0)
        + (IF IncludesAny(normalizedText, highPatterns) THEN 8 ELSE 0)
        + (IF normalizedText \in mediumHighPatterns THEN 6 ELSE 0)
        + (IF normalizedText \in mediumPatterns
              /\ Closest(button, banner, {"cookie", "consent", "privacy"}) THEN 4 ELSE 0)
        - (IF IncludesAny(normalizedText, acceptPatterns) THEN 8 ELSE 0)
        - (IF IncludesAny(normalizedText, ambiguousPatterns) THEN 3 ELSE 0)
        + (IF IncludesAny(normalizedText, contextBonusPatterns) THEN 2 ELSE 0)
        + (IF Includes(ariaLabel, "reject") \/ Includes(title, "reject")
              \/ Includes(className, "reject") \/ Includes(className, "decline")
           THEN 2 ELSE 0)
        - (IF Includes(ariaLabel, "accept") \/ Includes(title, "accept")
              \/ Includes(className, "accept") \/ Includes(className, "allow")
           THEN 2 ELSE 0)
  IN Max(0, Min(10, score))

\* findAndClickRejectButton, lines 3975-3978: `${text} ${ariaLabel} ${title}`.
FullText(button) ==
  Trim(ToLower(button.text)) \o " " \o ToLower(button.aria) \o " " \o ToLower(button.title)

\* The score findAndClickRejectButton gives button i, and the score
\* tryMultipleButtons sorts it by.
FullScore(i) == feat[i].fullScore
TextScore(i) == feat[i].textScore

(***************************************************************************)
(* TextClassifier: the classify function of createModel, and analyzeButtons.*)
(* The score is kept times ten, so that the context boost of 1.2 stays an  *)
(* integer.                                                                *)
(***************************************************************************)
vocabularyReject == {"reject", "decline", "deny", "refuse", "dismiss", "no", "cancel", "close"}
vocabularyNecessary == {"necessary", "essential", "required", "basic", "minimal", "functional"}
vocabularyManage == {"manage", "customize", "preferences", "settings", "options", "configure"}
vocabularyAccept == {"accept", "allow", "agree", "enable", "yes", "ok", "continue", "proceed"}
vocabularyCookie == {"cookie", "cookies", "tracking", "analytics", "marketing", "advertising"}
vocabularyPrivacy == {"privacy", "data", "gdpr", "consent", "personal", "information"}

CountIn(text, words) == Cardinality({w \in words : Includes(text, w)})

classify(text) ==
  LET lowerText == ToLower(text)
      score == 10 * CountIn(lowerText, vocabularyReject)
             + 8 * CountIn(lowerText, vocabularyNecessary)
             + 6 * CountIn(lowerText, vocabularyManage)
             - 5 * CountIn(lowerText, vocabularyAccept)
      hasContext == IncludesAny(lowerText, vocabularyCookie)
                    \/ IncludesAny(lowerText, vocabularyPrivacy)
      score10 == IF hasContext THEN 12 * score ELSE 10 * score
      abs10 == IF score10 < 0 THEN 0 - score10 ELSE score10
  IN [intent |-> IF score10 > 0 THEN "reject" ELSE IF score10 < 0 THEN "accept" ELSE "neutral",
      confidence |-> Min(abs10, 100)]

\* analyzeButtons, lines 357-361: `${text} ${ariaLabel} ${title}`, text trimmed.
analyze(b) == classify(Trim(b.text) \o " " \o b.aria \o " " \o b.title)

analysis(i) == feat[i].classification

\* analyzeButtons: the first entry of intent 'reject' after the stable sort by
\* intent, then by confidence; 0 when there is none.
bestRejectButton ==
  LET rej == {i \in DOMAIN btns : analysis(i).intent = "reject"}
  IN IF rej = {} THEN 0
     ELSE CHOOSE i \in rej :
            \A k \in rej : \/ analysis(i).confidence > analysis(k).confidence
                           \/ analysis(i).confidence = analysis(k).confidence /\ i <= k

(***************************************************************************)
(* CookieBannerAgent: the buttons each direct-dismissal function clicks,   *)
(* in the order it clicks them until a click is verified.                  *)
(***************************************************************************)
RECURSIVE SortByScore(_)
\* buttons.sort((a, b) => scoreB - scoreA): stable, descending.
SortByScore(S) ==
  IF S = {} THEN <<>>
  ELSE LET m == CHOOSE i \in S :
                  \A k \in S : \/ TextScore(i) > TextScore(k)
                               \/ TextScore(i) = TextScore(k) /\ i <= k
       IN <<m>> \o SortByScore(S \ {m})

FirstN(q, n) == SubSeq(q, 1, Min(n, Len(q)))

Indices == SetToSeq(DOMAIN btns)

\* findAndClickRejectButton: only buttons scoring above 0.7.
RejectLoop(q) == SelectSeq(q, LAMBDA i : FullScore(i) > SafeScore)

\* tryMultipleButtons: the top three of the sorted list.
TopThree == FirstN(SortByScore(DOMAIN btns), 3)

\* handleSingleButton: the first button, unless /accept|allow|agree|enable/.
SeemsSafe(b) == ~IncludesAny(ToLower(b.text), {"accept", "allow", "agree", "enable"})

SingleButton == IF btns # <<>> /\ feat[1].seemsSafe THEN <<1>> ELSE <<>>

\* handleCookiebot: querySelector('[id*="reject"], [class*="reject"]').
CookiebotSelector(b) == Includes(b.id, "reject") \/ Includes(b.cls, "reject")

CookiebotButton == FirstN(SelectSeq(Indices, LAMBDA i : feat[i].cookiebot), 1)

\* handleOneTrust: querySelector('#onetrust-reject-all-handler, .onetrust-close-btn-ui').
OneTrustSelector(b) ==
  b.id = "onetrust-reject-all-handler" \/ Includes(b.cls, "onetrust-close-btn-ui")

OneTrustButton == FirstN(SelectSeq(Indices, LAMBDA i : feat[i].onetrust), 1)

\* The framework a banner class names: /cookiebot|onetrust/ in
\* determineStrategy, includes('cookiebot') before includes('onetrust') in
\* handleFrameworkBanner.
FrameworkOf ==
  [c \in BannerClasses |->
     IF Includes(ToLower(c), "cookiebot") THEN "cookiebot"
     ELSE IF Includes(ToLower(c), "onetrust") THEN "onetrust" ELSE "none"]

determineStrategy ==
  LET buttonCount == Cardinality({i \in DOMAIN btns : btns[i].tag = "button"})
  IN IF buttonCount >= 3 THEN "multi-button"
     ELSE IF FrameworkOf[bannerClass] # "none" THEN "framework-specific"
     ELSE IF buttonCount = 1 THEN "single-button"
     ELSE "generic-hiding"

\* executeStrategy and handleFrameworkBanner: the function that runs.
StrategyFunction(name) ==
  IF name = "multi-button" THEN "tryMultipleButtons"
  ELSE IF name = "single-button" THEN "handleSingleButton"
  ELSE IF name = "framework-specific"
       THEN IF FrameworkOf[bannerClass] = "cookiebot" THEN "handleCookiebot"
            ELSE "handleOneTrust"
  ELSE "none"

OrderOf(fn) ==
  CASE fn = "findAndClickRejectButton" -> RejectLoop(Indices)
    [] fn = "tryMultipleButtons"       -> TopThree
    [] fn = "handleSingleButton"       -> SingleButton
    [] fn = "handleCookiebot"          -> CookiebotButton
    [] fn = "handleOneTrust"           -> OneTrustButton
    [] fn = "ai-button-selection"      -> IF bestRejectButton = 0 THEN <<>> ELSE <<bestRejectButton>>
    [] OTHER                           -> <<>>

(***************************************************************************)
(* CookieBannerAgent.processBanner and HybridCoordinator                   *)
(* .processWithAIGuidance: the control flow around the functions above.    *)
(* A function that is awaited is a job: the buttons it still has to try,   *)
(* the button whose click it is verifying, and the verifications done.     *)
(***************************************************************************)
AIActions == {"aggressive_clicking", "conservative_hiding", "hybrid_approach"}

\* clickButton, line 4020: the container is the closest ancestor-or-self whose
\* class holds cookie, consent or banner; isElementVisible(null) is false.
ClickSucceeded(i, stillShown) ==
  IF feat[i].container THEN ~stillShown ELSE TRUE

\* What the agent's functions make of button b in a banner of class c: they
\* depend on the button and the banner only, and are evaluated once.
Features(b, c) ==
  [fullScore      |-> calculateRejectScore(FullText(b), b, c),
   textScore      |-> calculateRejectScore(ToLower(b.text), b, c),
   classification |-> analyze(b),
   seemsSafe      |-> SeemsSafe(b),
   cookiebot      |-> CookiebotSelector(b),
   onetrust       |-> OneTrustSelector(b),
   container      |-> Closest(b, c, {"cookie", "consent", "banner"})]

\* A function is called: it runs up to its first await, the verification
\* timer of its first click.
Launch(fn, timed) ==
  LET ord == OrderOf(fn)
  IN /\ job' = IF ord = <<>>
               THEN [fn |-> fn, order |-> <<>>, pending |-> 0, waits |-> 0,
                     timed |-> timed, res |-> "fail"]
               ELSE [fn |-> fn, order |-> Tail(ord), pending |-> Head(ord), waits |-> 0,
                     timed |-> timed, res |-> "run"]
     /\ clicks' = IF ord = <<>> THEN clicks
                  ELSE Append(clicks, [btn |-> Head(ord), fn |-> fn])

\* The verification timer of a click fires: the function returns on success,
\* clicks its next button otherwise, and fails when none is left.
Verified(j, stillShown) ==
  IF ClickSucceeded(j.pending, stillShown)
  THEN [j EXCEPT !.res = "ok", !.waits = @ + 1]
  ELSE IF j.order = <<>>
       THEN [j EXCEPT !.res = "fail", !.pending = 0, !.waits = @ + 1]
       ELSE [j EXCEPT !.pending = Head(j.order), !.order = Tail(j.order), !.waits = @ + 1]

ClicksAfter(j, stillShown) ==
  IF ~ClickSucceeded(j.pending, stillShown) /\ j.order # <<>>
  THEN Append(clicks, [btn |-> Head(j.order), fn |-> j.fn])
  ELSE clicks

\* The verification comes before the phase timer when it is due earlier.
BeforePhaseTimer(j) == (j.waits + 1) * ClickVerifyMs < PhaseTimeoutMs

InitAgent ==
  /\ btns \in UNION {[1..n -> ButtonPool] : n \in 1..MaxButtons}
  /\ bannerClass \in BannerClasses
  /\ feat = [i \in DOMAIN btns |-> Features(btns[i], bannerClass)]
  /\ bannerVisible = TRUE
  /\ \/ apc = "rule-start" /\ aiAction = "none"
     \/ apc = "ai-start" /\ aiAction \in AIActions
  /\ job = NoJob
  /\ losers = <<>>
  /\ clicks = <<>>
  /\ guided = FALSE
  /\ aresult = NoResult
  /\ ScanIdle
  /\ FlowIdle
  /\ HybridIdle
  /\ TimedIdle
  /\ PageIdle
  /\ ClassifyIdle
  /\ HistoryIdle
  /\ LearnIdle
  /\ AdviceIdle
  /\ LogIdle
  /\ CacheIdle
  /\ DifficultyIdle
  /\ OptimIdle
  /\ ClickIdle
  /\ KillerIdle
  /\ TeardownIdle
  /\ CategoryIdle
  /\ DebounceIdle

\* processBanner, phase 1: findAndClickRejectButton raced with a 3 s timer.
RuleStart ==
  /\ apc = "rule-start"
  /\ apc' = "phase1"
  /\ Launch("findAndClickRejectButton", TRUE)
  /\ UNCHANGED <<btns, feat, bannerClass, bannerVisible, losers, aiAction, guided, aresult>>
  /\ UNCHANGED nonAgentVars

\* The verification timer of the awaited function fires, 1 s after the click;
\* the page has removed the banner by then, or has not.
JobVerify(gone) ==
  /\ apc \in {"phase1", "phase2", "ai-button", "ai-strategy"}
  /\ job.res = "run"
  /\ job.timed => BeforePhaseTimer(job)
  /\ bannerVisible' = (bannerVisible /\ ~gone)
  /\ job' = Verified(job, bannerVisible')
  /\ clicks' = ClicksAfter(job, bannerVisible')
  /\ UNCHANGED <<btns, feat, bannerClass, apc, losers, aiAction, guided, aresult>>
  /\ UNCHANGED nonAgentVars

\* The phase timer fires first: the phase fails with 'timeout', the function
\* keeps running.
PhaseTimeout ==
  /\ apc \in {"phase1", "phase2"}
  /\ job.res = "run"
  /\ job.timed /\ ~BeforePhaseTimer(job)
  /\ losers' = Append(losers, job)
  /\ job' = [job EXCEPT !.res = "timeout"]
  /\ UNCHANGED <<btns, feat, bannerClass, bannerVisible, apc, clicks, aiAction, guided, aresult>>
  /\ UNCHANGED nonAgentVars

\* A function whose phase timed out goes on: its result is dropped.
LoserVerify(k, gone) ==
  /\ k \in DOMAIN losers
  /\ losers[k].res = "run"
  /\ bannerVisible' = (bannerVisible /\ ~gone)
  /\ losers' = [losers EXCEPT ![k] = Verified(losers[k], bannerVisible')]
  /\ clicks' = ClicksAfter(losers[k], bannerVisible')
  /\ UNCHANGED <<btns, feat, bannerClass, apc, job, aiAction, guided, aresult>>
  /\ UNCHANGED nonAgentVars

\* The value processBanner returns; called from executeAIStrategy, the value
\* processWithAIGuidance makes of it.
Return(success, method, confidence) ==
  /\ apc' = "done"
  /\ aresult' = IF guided
                THEN [success |-> success, method |-> "ai-strategy-execution",
                      confidence |-> 0]
                ELSE [success |-> success, method |-> method, confidence |-> confidence]

\* Phase 1 is over: return 'button-click', or determineStrategy and phase 2.
Phase1End ==
  /\ apc = "phase1"
  /\ job.res \in {"ok", "fail", "timeout"}
  /\ IF job.res = "ok"
     THEN /\ Return(TRUE, "button-click", 10 * FullScore(job.pending))
          /\ job' = NoJob
          /\ UNCHANGED clicks
     ELSE /\ apc' = "phase2"
          /\ Launch(StrategyFunction(determineStrategy), TRUE)
          /\ UNCHANGED aresult
  /\ UNCHANGED <<btns, feat, bannerClass, bannerVisible, losers, aiAction, guided>>
  /\ UNCHANGED nonAgentVars

\* strategyResult.confidence || 0.7
StrategyConfidence(fn) ==
  CASE fn = "tryMultipleButtons" -> 80
    [] fn = "handleSingleButton" -> 60
    [] OTHER                     -> 90

\* Phase 2 is over: return 'strategy-execution', or go on to the multi-step
\* flow.
Phase2End ==
  /\ apc = "phase2"
  /\ job.res \in {"ok", "fail", "timeout"}
  /\ IF job.res = "ok"
     THEN /\ Return(TRUE, "strategy-execution", StrategyConfidence(job.fn))
          /\ UNCHANGED clicks
     ELSE /\ apc' = "phase3"
          /\ UNCHANGED <<aresult, clicks>>
  /\ job' = NoJob
  /\ UNCHANGED <<btns, feat, bannerClass, bannerVisible, losers, aiAction, guided>>
  /\ UNCHANGED nonAgentVars

\* Phase 3: handleMultiStepConsent raced with a 10 s timer; the flow itself is
\* the subject of the multi-step specification, here it succeeds or does not.
Phase3End(ok) ==
  /\ apc = "phase3"
  /\ IF ok THEN Return(TRUE, "multi-step-consent", 80)
           ELSE Return(FALSE, "no-safe-button-found", 0)
  /\ bannerVisible' = (bannerVisible /\ ~ok)
  /\ UNCHANGED <<btns, feat, bannerClass, job, losers, clicks, aiAction, guided>>
  /\ UNCHANGED nonAgentVars

\* executeAIStrategy: the function the recommended action stands for.
ExecuteAIStrategy ==
  CASE aiAction = "aggressive_clicking" ->
         /\ apc' = "ai-strategy"
         /\ Launch("tryMultipleButtons", FALSE)
         /\ UNCHANGED guided
    [] aiAction = "conservative_hiding" ->
         /\ apc' = "ai-strategy"
         /\ Launch("findAndClickRejectButton", FALSE)
         /\ UNCHANGED guided
    [] OTHER ->
         /\ apc' = "phase1"
         /\ guided' = TRUE
         /\ Launch("findAndClickRejectButton", TRUE)

\* processWithAIGuidance: click the classifier's best reject button, if any.
AIStart ==
  /\ apc = "ai-start"
  /\ IF bestRejectButton # 0
     THEN /\ apc' = "ai-button"
          /\ Launch("ai-button-selection", FALSE)
          /\ UNCHANGED guided
     ELSE ExecuteAIStrategy
  /\ UNCHANGED <<btns, feat, bannerClass, bannerVisible, losers, aiAction, aresult>>
  /\ UNCHANGED nonAgentVars

\* The click of the best reject button is verified: return
\* 'ai-button-selection', or run the recommended strategy.
AIButtonEnd ==
  /\ apc = "ai-button"
  /\ job.res \in {"ok", "fail"}
  /\ IF job.res = "ok"
     THEN /\ apc' = "done"
          /\ aresult' = [success |-> TRUE, method |-> "ai-button-selection", confidence |-> 0]
          /\ job' = NoJob
          /\ UNCHANGED <<clicks, guided>>
     ELSE /\ ExecuteAIStrategy
          /\ UNCHANGED aresult
  /\ UNCHANGED <<btns, feat, bannerClass, bannerVisible, losers, aiAction>>
  /\ UNCHANGED nonAgentVars

\* tryMultipleButtons or findAndClickRejectButton, called by
\* executeAIStrategy, returns.
AIStrategyEnd ==
  /\ apc = "ai-strategy"
  /\ job.res \in {"ok", "fail"}
  /\ apc' = "done"
  /\ aresult' = [success |-> job.res = "ok", method |-> "ai-strategy-execution",
                 confidence |-> 0]
  /\ job' = NoJob
  /\ UNCHANGED <<btns, feat, bannerClass, bannerVisible, losers, clicks, aiAction, guided>>
  /\ UNCHANGED nonAgentVars

NextAgent ==
  \/ RuleStart
  \/ \E gone \in BOOLEAN : JobVerify(gone)
  \/ PhaseTimeout
  \/ \E k \in DOMAIN losers, gone \in BOOLEAN : LoserVerify(k, gone)
  \/ Phase1End
  \/ Phase2End
  \/ \E ok \in BOOLEAN : Phase3End(ok)
  \/ AIStart
  \/ AIButtonEnd
  \/ AIStrategyEnd

SpecAgent == InitAgent /\ [][NextAgent]_vars

(***************************************************************************)
(* C3: every button clicked as a direct dismissal (by                      *)
(* findAndClickRejectButton, tryMultipleButtons, handleSingleButton or as  *)
(* the learning path's best reject button) has a reject score strictly     *)
(* above 0.7, under the text findAndClickRejectButton scores or under the  *)
(* text tryMultipleButtons scores.                                         *)
(***************************************************************************)
DismissFunctions == {"findAndClickRejectButton", "tryMultipleButtons",
                     "handleSingleButton", "ai-button-selection"}

C3_ClickedAboveThreshold ==
  \A n \in DOMAIN clicks :
    clicks[n].fn \in DismissFunctions =>
      FullScore(clicks[n].btn) > SafeScore \/ TextScore(clicks[n].btn) > SafeScore

(***************************************************************************)
(* AntiEvasionCookieKiller.handleMultiStepConsent: the page.               *)
(***************************************************************************)
PageBtn(text, aria, cls, id, inBanner) ==
  [text |-> text, aria |-> aria, title |-> "", cls |-> cls, id |-> id, inBanner |-> inBanner]

\* The buttons a page is built from: in the banner, or elsewhere in the
\* document (the preference centre).
PageButtonPool ==
  { PageBtn("Manage Preferences", "", "btn", "onetrust-pc-btn-handler", TRUE),
    PageBtn("Accept All", "", "btn", "onetrust-accept-btn-handler", TRUE),
    PageBtn("Reject All", "", "btn", "onetrust-reject-all-handler", TRUE),
    PageBtn("Show details", "", "btn", "CybotCookiebotDialogBodyButtonDetails", TRUE),
    PageBtn("Allow all cookies", "", "btn", "CybotCookiebotDialogBodyButtonAccept", FALSE),
    PageBtn("More Options", "", "call", "", TRUE),
    PageBtn("Accept All", "", "trustarc-agree-btn", "", FALSE),
    PageBtn("Save Settings", "Save", "save-preference-btn-handler", "", FALSE),
    PageBtn("Accept", "", "btn", "", TRUE) }

PageClasses == {"cookie-banner", "onetrust-banner-sdk", "cookiebot", "trustarc-notice"}

Control(kind, label, wrap, checked, opts) ==
  [kind |-> kind, label |-> label, wrap |-> wrap, checked |-> checked, opts |-> opts]

\* The category controls a page is built from.  kind: the generic handler
\* whose selector matches; wrap: the framework selector that matches; opts:
\* the option texts of a select.
ControlPool ==
  { Control("toggle", "Marketing", "none", TRUE, <<>>),
    Control("checkbox", "Analytics cookies", "ot-switch", TRUE, <<>>),
    Control("checkbox", "Strictly Necessary Cookies", "ot-switch", TRUE, <<>>),
    Control("checkbox", "Functional Cookies", "ot-switch", TRUE, <<>>),
    Control("checkbox", "Required cookies", "CybotCookiebotDialogBodyLevelButton", TRUE, <<>>),
    Control("toggle", "Cookies nécessaires", "switch", TRUE, <<>>),
    Control("select", "Security", "none", TRUE, <<"On", "Off">>),
    Control("select", "Advertising", "none", TRUE, <<"Allow", "Always">>) }

\* className tokens: the selector .c
HasClass(cls, c) == Includes(" " \o cls \o " ", " " \o c \o " ")

preferenceKeywords ==
  { "manage preferences", "cookie preferences", "manage cookies", "customize",
    "privacy settings", "cookie settings", "manage options", "preferences",
    "settings", "options", "choose", "customize cookies", "manage consent",
    "einstellungen verwalten", "cookie-einstellungen", "präferenzen",
    "datenschutz-einstellungen", "cookies verwalten",
    "gérer les préférences", "paramètres des cookies", "personnaliser",
    "paramètres de confidentialité", "gérer les cookies",
    "gestionar preferencias", "configuración de cookies", "personalizar",
    "configuración de privacidad", "gestionar cookies",
    "gestisci preferenze", "impostazioni cookie", "personalizza",
    "impostazioni privacy", "gestisci cookie" }

saveKeywords ==
  { "save", "confirm", "apply", "accept", "done", "finish",
    "save preferences", "save settings", "confirm choices",
    "save changes", "apply settings", "update preferences",
    "speichern", "bestätigen", "anwenden",
    "enregistrer", "confirmer", "appliquer",
    "guardar", "confirmar", "aplicar",
    "salva", "conferma", "applica" }

essentialKeywords ==
  { "necessary", "essential", "required", "functional", "strictly necessary",
    "security", "authentication", "basic", "core", "fundamental",
    "notwendig", "erforderlich", "wesentlich",
    "nécessaire", "essentiel", "requis",
    "necesario", "esencial", "requerido",
    "necessario", "essenziale", "richiesto" }

nonEssentialKeywords ==
  { "marketing", "advertising", "analytics", "tracking", "social",
    "performance", "measurement", "targeting", "personalization",
    "third party", "social media", "youtube", "facebook", "google",
    "werbung", "analytik", "publicité", "analytique",
    "publicidad", "analítica", "pubblicità", "analitica" }

isNonEssentialCategory(text) ==
  LET lowerText == ToLower(text)
  IN IF IncludesAny(lowerText, essentialKeywords) THEN FALSE
     ELSE IncludesAny(lowerText, nonEssentialKeywords)

\* handleCookieDropdowns: the first reject-like option of a select, 0 when
\* there is none (the option values are the option texts).
RejectOption(opts) ==
  LET rejectOptions == {k \in DOMAIN opts :
                           \/ IncludesAny(ToLower(opts[k]), {"reject", "deny", "off", "disable", "no"})
                           \/ opts[k] \in {"0", "false"}}
  IN IF rejectOptions = {} THEN 0
     ELSE CHOOSE k \in rejectOptions : \A m \in rejectOptions : k <= m

\* What the handlers' label tests make of a control.
ControlFeatures(c) ==
  [nonEssential |-> isNonEssentialCategory(c.label),
   essential    |-> IncludesAny(ToLower(c.label), essentialKeywords),
   necessary    |-> Includes(ToLower(c.label), "strictly necessary")
                    \/ Includes(ToLower(c.label), "necessary"),
   required     |-> Includes(ToLower(c.label), "required")
                    \/ Includes(ToLower(c.label), "essential"),
   rejectOption |-> RejectOption(c.opts)]

\* findPreferenceButton and savePreferences: the text that is searched.
PreferenceText(b) ==
  Trim(ToLower(b.text)) \o " " \o ToLower(b.aria) \o " " \o ToLower(b.title)
SaveText(b) == Trim(ToLower(b.text)) \o " " \o ToLower(b.aria)

\* AntiEvasionCookieKiller.findAndClickRejectButton, lines 2885-2888: safeGet
\* with the empty path gives '' for both attributes.
KillerFullText(b) == Trim(ToLower(b.text)) \o " " \o "" \o " " \o ""

\* What the flow's text tests and selectors make of button b of a page whose
\* banner has class c.
PageFeatures(b, c) ==
  LET ctx == IF b.inBanner THEN c ELSE ""
  IN [preference  |-> IncludesAny(PreferenceText(b), preferenceKeywords),
      progressive |-> IncludesAny(Trim(ToLower(b.text)),
                                  {"continue", "next", "more options", "advanced"}),
      saveKeyword |-> IncludesAny(SaveText(b), saveKeywords),
      acceptAll   |-> Includes(SaveText(b), "accept all") \/ Includes(SaveText(b), "allow all"),
      score       |-> calculateRejectScore(KillerFullText(b), b, ctx),
      container   |-> Closest(b, ctx, {"cookie", "consent", "banner"}),
      otDirect    |-> b.id = "onetrust-reject-all-handler" \/ HasClass(b.cls, "onetrust-close-btn-ui"),
      otManage    |-> b.id = "onetrust-pc-btn-handler" \/ HasClass(b.cls, "onetrust-pc-dark-filter"),
      otSave      |-> b.id = "onetrust-accept-btn-handler" \/ HasClass(b.cls, "save-preference-btn-handler"),
      cbDirect    |-> b.id = "CybotCookiebotDialogBodyButtonDecline",
      cbDetails   |-> b.id = "CybotCookiebotDialogBodyButtonDetails",
      cbSave      |-> b.id = "CybotCookiebotDialogBodyButtonAccept",
      taOptions   |-> HasClass(b.cls, "pdynamicbutton") \/ HasClass(b.cls, "call"),
      taOptionText |-> Includes(ToLower(b.text), "option"),
      taSubmit    |-> HasClass(b.cls, "submit") \/ HasClass(b.cls, "trustarc-agree-btn")]

\* banner.innerHTML.toLowerCase(): the buttons of the banner with their
\* attributes and text.
InnerHTMLIncludes(q, word) ==
  \E i \in DOMAIN q :
    /\ q[i].inBanner
    /\ \/ Includes(ToLower(q[i].id), word)
       \/ Includes(ToLower(q[i].cls), word)
       \/ Includes(ToLower(q[i].text), word)
       \/ Includes(ToLower(q[i].aria), word)

\* handleFrameworkMultiStep: the first framework named by the banner's class
\* or markup.
DetectFramework(c, q) ==
  IF Includes(ToLower(c), "onetrust") \/ InnerHTMLIncludes(q, "onetrust") THEN "onetrust"
  ELSE IF Includes(ToLower(c), "cookiebot") \/ InnerHTMLIncludes(q, "cookiebot") THEN "cookiebot"
  ELSE IF Includes(ToLower(c), "trustarc") \/ InnerHTMLIncludes(q, "trustarc") THEN "trustarc"
  ELSE "none"

PageIndices == SetToSeq(DOMAIN pbtns)
BannerIndices == SelectSeq(PageIndices, LAMBDA i : pbtns[i].inBanner)
ControlIndices == SetToSeq(DOMAIN ctrls)

\* querySelector: the first match, 0 for null.
First(q) == IF q = <<>> THEN 0 ELSE Head(q)

(***************************************************************************)
(* handleMultiStepConsent and the functions it calls.                      *)
(***************************************************************************)
\* waitForPreferencesPage: the class and id selectors of preferenceIndicators,
\* on the document's buttons.
IndicatorIn(q) ==
  \E i \in DOMAIN q :
    \/ IncludesAny(q[i].cls, {"preference", "setting", "manage"})
    \/ IncludesAny(q[i].id, {"preference", "setting", "manage"})

\* The selectors of handleCookieToggles, handleCookieCheckboxes and
\* handleCookieDropdowns.
IsToggle(c) == c.kind = "toggle"
IsCheckbox(c) == c.kind = "checkbox" \/ (c.kind = "toggle" /\ c.wrap = "switch")
IsDropdown(c) == c.kind = "select"

Uncheck(S) ==
  [i \in DOMAIN ctrls |-> IF i \in S THEN [ctrls[i] EXCEPT !.checked = FALSE] ELSE ctrls[i]]

MutsFor(S, by) ==
  LET q == SetToSeq(S) IN [k \in DOMAIN q |-> [ctrl |-> q[k], by |-> by]]

ClicksFor(q, by) == [k \in DOMAIN q |-> [btn |-> q[k], by |-> by]]

\* AntiEvasionCookieKiller.clickButton, lines 2966-2977: without a container
\* the banner counts as still visible.
KillerClickSucceeded(i, stillShown) ==
  IF pfeat[i].container THEN ~stillShown ELSE FALSE

\* A page with the buttons of one framework, and the pages drawn from the pool.
FixedPages ==
  { <<PageBtn("Manage Preferences", "", "btn", "onetrust-pc-btn-handler", TRUE),
      PageBtn("Accept All", "", "btn", "onetrust-accept-btn-handler", TRUE)>>,
    <<PageBtn("Show details", "", "btn", "CybotCookiebotDialogBodyButtonDetails", TRUE),
      PageBtn("Allow all cookies", "", "btn", "CybotCookiebotDialogBodyButtonAccept", FALSE)>>,
    <<PageBtn("More Options", "", "call", "", TRUE),
      PageBtn("Accept All", "", "trustarc-agree-btn", "", FALSE)>>,
    <<PageBtn("Accept", "", "btn", "", TRUE)>> }

FixedControls ==
  { <<>>,
    <<Control("toggle", "Marketing", "none", TRUE, <<>>)>>,
    <<Control("checkbox", "Strictly Necessary Cookies", "ot-switch", TRUE, <<>>)>> }

InitFlow ==
  /\ \/ /\ pbtns \in FixedPages
        /\ ctrls \in UNION {[1..n -> ControlPool] : n \in 1..MaxControls}
     \/ /\ pbtns \in UNION {[1..n -> PageButtonPool] : n \in 1..MaxPageButtons}
        /\ ctrls \in FixedControls
  /\ pageClass \in PageClasses
  /\ pfeat = [i \in DOMAIN pbtns |-> PageFeatures(pbtns[i], pageClass)]
  /\ cfeat = [i \in DOMAIN ctrls |-> ControlFeatures(ctrls[i])]
  /\ framework = DetectFramework(pageClass, pbtns)
  /\ indicator = IndicatorIn(pbtns)
  /\ shown = TRUE
  /\ fpc = "start"
  /\ attempts = 0
  /\ found = FALSE
  /\ steps = <<>>
  /\ muts = <<>>
  /\ fclicks = <<>>
  /\ fresult = NoFlowResult
  /\ ScanIdle
  /\ AgentIdle
  /\ HybridIdle
  /\ TimedIdle
  /\ PageIdle
  /\ ClassifyIdle
  /\ HistoryIdle
  /\ LearnIdle
  /\ AdviceIdle
  /\ LogIdle
  /\ CacheIdle
  /\ DifficultyIdle
  /\ OptimIdle
  /\ ClickIdle
  /\ KillerIdle
  /\ TeardownIdle
  /\ CategoryIdle
  /\ DebounceIdle

\* handleMultiStepConsent, step 1: findPreferenceButton and the click of the
\* button it returns.
FlowStart ==
  /\ fpc = "start"
  /\ LET p == First(SelectSeq(BannerIndices, LAMBDA i : pfeat[i].preference))
     IN IF p # 0
        THEN /\ fclicks' = Append(fclicks, [btn |-> p, by |-> "findPreferenceButton"])
             /\ fpc' = "pref-click"
        ELSE /\ fpc' = "progressive"
             /\ UNCHANGED fclicks
  /\ UNCHANGED <<pageClass, pbtns, pfeat, ctrls, cfeat, framework, indicator, shown,
                 attempts, found, steps, muts, fresult>>
  /\ UNCHANGED nonFlowVars

\* The click of the preference button is verified (its result is not used);
\* waitForPreferencesPage starts.
PrefClickVerified(gone) ==
  /\ fpc = "pref-click"
  /\ shown' = (shown /\ ~gone)
  /\ fpc' = "poll"
  /\ attempts' = 0
  /\ UNCHANGED <<pageClass, pbtns, pfeat, ctrls, cfeat, framework, indicator,
                 found, steps, muts, fclicks, fresult>>
  /\ UNCHANGED nonFlowVars

\* The page opens its preference centre.
PageShowsPreferences ==
  /\ fpc \in {"pref-click", "poll"}
  /\ ~indicator
  /\ indicator' = TRUE
  /\ UNCHANGED <<pageClass, pbtns, pfeat, ctrls, cfeat, framework, shown, fpc,
                 attempts, found, steps, muts, fclicks, fresult>>
  /\ UNCHANGED nonFlowVars

\* waitForPreferencesPage: checkForPreferences runs, 500 ms after the last
\* run; the promise resolves with foundPreferences, and the counter of the
\* closure is gone with it.
checkForPreferences ==
  /\ fpc = "poll"
  /\ IF indicator \/ attempts + 1 >= maxAttempts
     THEN /\ found' = indicator
          /\ fpc' = "toggles"
          /\ attempts' = 0
     ELSE /\ attempts' = attempts + 1
          /\ UNCHANGED <<found, fpc>>
  /\ UNCHANGED <<pageClass, pbtns, pfeat, ctrls, cfeat, framework, indicator, shown,
                 steps, muts, fclicks, fresult>>
  /\ UNCHANGED nonFlowVars

\* A handler of configurePreferences: the controls S are disabled.
Configure(S, by, step, next) ==
  /\ ctrls' = Uncheck(S)
  /\ muts' = muts \o MutsFor(S, by)
  /\ steps' = IF S # {} THEN Append(steps, step) ELSE steps
  /\ fpc' = next
  /\ UNCHANGED <<pageClass, pbtns, pfeat, cfeat, framework, indicator, shown,
                 attempts, found, fclicks, fresult>>
  /\ UNCHANGED nonFlowVars

handleCookieToggles ==
  /\ fpc = "toggles"
  /\ Configure({i \in DOMAIN ctrls : IsToggle(ctrls[i]) /\ ctrls[i].checked
                                     /\ cfeat[i].nonEssential},
               "handleCookieToggles", "Disabled cookie category toggles", "checkboxes")

handleCookieCheckboxes ==
  /\ fpc = "checkboxes"
  /\ Configure({i \in DOMAIN ctrls : IsCheckbox(ctrls[i]) /\ ctrls[i].checked
                                     /\ cfeat[i].nonEssential},
               "handleCookieCheckboxes", "Unchecked cookie category checkboxes", "dropdowns")

\* handleCookieDropdowns: every select with a reject-like option is set to it.
handleCookieDropdowns ==
  /\ fpc = "dropdowns"
  /\ Configure({i \in DOMAIN ctrls : IsDropdown(ctrls[i]) /\ cfeat[i].rejectOption # 0},
               "handleCookieDropdowns", "Set cookie dropdowns to reject", "categories")

\* handleCategoryButtons: querySelector throws on the selector
\* button:contains(...), the error is caught per container, nothing is clicked.
handleCategoryButtons ==
  /\ fpc = "categories"
  /\ Configure({}, "handleCategoryButtons", "Disabled cookie categories via buttons", "save")

\* savePreferences, then the return of configurePreferences (success when a
\* step succeeded) and what handleMultiStepConsent does with it.
savePreferences(gone) ==
  /\ fpc = "save"
  /\ LET b == First(SelectSeq(PageIndices,
                              LAMBDA i : pfeat[i].saveKeyword /\ ~pfeat[i].acceptAll))
         done == IF b # 0 THEN Append(steps, "Saved preference changes") ELSE steps
     IN /\ fclicks' = IF b # 0 THEN Append(fclicks, [btn |-> b, by |-> "savePreferences"])
                      ELSE fclicks
        /\ shown' = IF b # 0 THEN shown /\ ~gone ELSE shown
        /\ steps' = done
        /\ IF Len(done) > 0
           THEN /\ fpc' = "done"
                /\ fresult' = [success |-> TRUE, method |-> "multi-step-preferences",
                               reason |-> "none"]
           ELSE /\ fpc' = "progressive"
                /\ UNCHANGED fresult
  /\ UNCHANGED <<pageClass, pbtns, pfeat, ctrls, cfeat, framework, indicator,
                 attempts, found, muts>>
  /\ UNCHANGED nonFlowVars

\* handleProgressiveConsent: every 'continue' button of the banner is clicked
\* and followed by findAndClickRejectButton(document.body), until a reject
\* click is verified.
handleProgressiveConsent(gone) ==
  /\ fpc = "progressive"
  /\ LET progs == SelectSeq(BannerIndices, LAMBDA i : pfeat[i].progressive)
         cands == SelectSeq(PageIndices, LAMBDA i : pfeat[i].score > SafeScore)
         hits  == {k \in DOMAIN cands : pfeat[cands[k]].container}
         hit   == IF hits = {} THEN 0 ELSE CHOOSE k \in hits : \A m \in hits : k <= m
         RECURSIVE Rounds(_)
         Rounds(q) == IF q = <<>> THEN <<>>
                      ELSE ClicksFor(<<Head(q)>>, "handleProgressiveConsent")
                           \o ClicksFor(cands, "findAndClickRejectButton")
                           \o Rounds(Tail(q))
     IN IF progs # <<>> /\ gone /\ hit # 0
        THEN /\ fclicks' = fclicks \o ClicksFor(<<Head(progs)>>, "handleProgressiveConsent")
                                   \o ClicksFor(SubSeq(cands, 1, hit), "findAndClickRejectButton")
             /\ shown' = FALSE
             /\ fpc' = "done"
             /\ fresult' = [success |-> TRUE, method |-> "progressive-flow", reason |-> "none"]
        ELSE /\ fclicks' = fclicks \o Rounds(progs)
             /\ fpc' = "framework"
             /\ UNCHANGED <<shown, fresult>>
  /\ UNCHANGED <<pageClass, pbtns, pfeat, ctrls, cfeat, framework, indicator,
                 attempts, found, steps, muts>>
  /\ UNCHANGED nonFlowVars

\* A framework handler: the direct button, then the framework's preference
\* button, its category inputs and its save button.  direct, manage and save
\* are the buttons the handler's selectors give (0 for null), S the inputs it
\* unchecks.
FrameworkFlow(name, direct, manage, S, save, gone) ==
  LET first == IF direct # 0 THEN ClicksFor(<<direct>>, name \o "-direct") ELSE <<>>
  IN IF direct # 0 /\ KillerClickSucceeded(direct, shown /\ ~gone)
     THEN /\ fclicks' = fclicks \o first
          /\ shown' = FALSE
          /\ fresult' = [success |-> TRUE, method |-> name \o "-direct", reason |-> "none"]
          /\ UNCHANGED <<ctrls, muts>>
     ELSE IF manage # 0
     THEN /\ fclicks' = fclicks \o first \o ClicksFor(<<manage>>, name \o "-manage")
                                \o (IF save # 0 THEN ClicksFor(<<save>>, name \o "-save")
                                    ELSE <<>>)
          /\ ctrls' = Uncheck(S)
          /\ muts' = muts \o MutsFor(S, name)
          /\ shown' = (shown /\ ~gone)
          /\ fresult' = IF save # 0
                        THEN [success |-> TRUE, method |-> name \o "-preferences",
                              reason |-> "none"]
                        ELSE [success |-> FALSE, method |-> "none",
                              reason |-> "No multi-step flow detected"]
     ELSE /\ fclicks' = fclicks \o first
          /\ shown' = (shown /\ ~gone)
          /\ fresult' = [success |-> FALSE, method |-> "none",
                         reason |-> "No multi-step flow detected"]
          /\ UNCHANGED <<ctrls, muts>>

handleOneTrustMultiStep(gone) ==
  /\ fpc = "framework" /\ framework = "onetrust"
  /\ FrameworkFlow("onetrust",
       First(SelectSeq(BannerIndices, LAMBDA i : pfeat[i].otDirect)),
       First(SelectSeq(BannerIndices, LAMBDA i : pfeat[i].otManage)),
       {i \in DOMAIN ctrls : ctrls[i].wrap = "ot-switch" /\ ~cfeat[i].necessary
                             /\ ctrls[i].checked},
       First(SelectSeq(PageIndices, LAMBDA i : pfeat[i].otSave)),
       gone)
  /\ fpc' = "done"
  /\ UNCHANGED <<pageClass, pbtns, pfeat, cfeat, framework, indicator,
                 attempts, found, steps>>
  /\ UNCHANGED nonFlowVars

handleCookieBotMultiStep(gone) ==
  /\ fpc = "framework" /\ framework = "cookiebot"
  /\ FrameworkFlow("cookiebot",
       First(SelectSeq(BannerIndices, LAMBDA i : pfeat[i].cbDirect)),
       First(SelectSeq(BannerIndices, LAMBDA i : pfeat[i].cbDetails)),
       {i \in DOMAIN ctrls : ctrls[i].wrap = "CybotCookiebotDialogBodyLevelButton"
                             /\ ~cfeat[i].necessary
                             /\ ctrls[i].checked},
       First(SelectSeq(PageIndices, LAMBDA i : pfeat[i].cbSave)),
       gone)
  /\ fpc' = "done"
  /\ UNCHANGED <<pageClass, pbtns, pfeat, cfeat, framework, indicator,
                 attempts, found, steps>>
  /\ UNCHANGED nonFlowVars

\* handleTrustArcMultiStep has no direct button; its options button is the
\* first .pdynamicbutton or .call of the banner, used when its text holds
\* 'option'.
handleTrustArcMultiStep(gone) ==
  /\ fpc = "framework" /\ framework = "trustarc"
  /\ LET optionsBtn == First(SelectSeq(BannerIndices, LAMBDA i : pfeat[i].taOptions))
     IN FrameworkFlow("trustarc", 0,
          IF optionsBtn # 0 /\ pfeat[optionsBtn].taOptionText THEN optionsBtn ELSE 0,
          {i \in DOMAIN ctrls : ctrls[i].wrap = "switch" /\ ~cfeat[i].required
                                /\ ctrls[i].checked},
          First(SelectSeq(PageIndices, LAMBDA i : pfeat[i].taSubmit)),
          gone)
  /\ fpc' = "done"
  /\ UNCHANGED <<pageClass, pbtns, pfeat, cfeat, framework, indicator,
                 attempts, found, steps>>
  /\ UNCHANGED nonFlowVars

\* handleFrameworkMultiStep finds no framework: 'No multi-step flow detected'.
NoFramework ==
  /\ fpc = "framework" /\ framework = "none"
  /\ fpc' = "done"
  /\ fresult' = [success |-> FALSE, method |-> "none", reason |-> "No multi-step flow detected"]
  /\ UNCHANGED <<pageClass, pbtns, pfeat, ctrls, cfeat, framework, indicator, shown,
                 attempts, found, steps, muts, fclicks>>
  /\ UNCHANGED nonFlowVars

NextFlow ==
  \/ FlowStart
  \/ \E gone \in BOOLEAN : PrefClickVerified(gone)
  \/ PageShowsPreferences
  \/ checkForPreferences
  \/ handleCookieToggles
  \/ handleCookieCheckboxes
  \/ handleCookieDropdowns
  \/ handleCategoryButtons
  \/ \E gone \in BOOLEAN : savePreferences(gone)
  \/ \E gone \in BOOLEAN : handleProgressiveConsent(gone)
  \/ \E gone \in BOOLEAN : handleOneTrustMultiStep(gone)
  \/ \E gone \in BOOLEAN : handleCookieBotMultiStep(gone)
  \/ \E gone \in BOOLEAN : handleTrustArcMultiStep(gone)
  \/ NoFramework

SpecFlow == InitFlow /\ [][NextFlow]_vars

(***************************************************************************)
(* C2: no category-configuration path disables a control whose label       *)
(* holds a keyword of the essential set: every logged disable mutation     *)
(* (an unchecking click, a select set to a reject-like option) is on a     *)
(* control without such a keyword.                                         *)
(***************************************************************************)
C2_EssentialNeverDisabled ==
  \A n \in DOMAIN muts : ~cfeat[muts[n].ctrl].essential

(***************************************************************************)
(* C4: the save step of a multi-step flow (savePreferences, and the save   *)
(* click of the OneTrust, CookieBot and TrustArc handlers) never clicks a  *)
(* button whose label holds 'accept all' or 'allow all'.                   *)
(***************************************************************************)
SaveSteps == {"savePreferences", "onetrust-save", "cookiebot-save", "trustarc-save"}

C4_SaveNeverAcceptsAll ==
  \A n \in DOMAIN fclicks :
    fclicks[n].by \in SaveSteps => ~pfeat[fclicks[n].btn].acceptAll

(***************************************************************************)
(* C9: when the preference button was clicked and waitForPreferencesPage   *)
(* resolved without an indicator, no handler of configurePreferences and   *)
(* no save step runs, and the flow ends without success, with the reason   *)
(* 'preference-timeout'.                                                   *)
(***************************************************************************)
PreferenceTimedOut ==
  /\ \E n \in DOMAIN fclicks : fclicks[n].by = "findPreferenceButton"
  /\ fpc \notin {"start", "pref-click", "poll"}
  /\ ~found

C9_TimeoutEndsInFailure ==
  PreferenceTimedOut =>
    /\ fpc \notin {"checkboxes", "dropdowns", "categories", "save"}
    /\ \A n \in DOMAIN fclicks : fclicks[n].by # "savePreferences"
    /\ fpc = "done" => ~fresult.success /\ fresult.reason = "preference-timeout"

(***************************************************************************)
(* C31: the multi-step preference flow reports success                     *)
(* ('multi-step-preferences') only if the save step found and clicked a    *)
(* save button; a run in which savePreferences clicked nothing is not      *)
(* reported as success.                                                    *)
(***************************************************************************)
SaveClicked == \E n \in DOMAIN fclicks : fclicks[n].by = "savePreferences"

C31_SuccessNeedsSave ==
  (fpc = "done" /\ fresult.success /\ fresult.method = "multi-step-preferences")
    => SaveClicked

(***************************************************************************)
(* HybridCoordinator: processBanner, analyzeSiteComplexity, decideStrategy,*)
(* the four strategies, chooseBestResult and recordOutcome.                *)
(* Factors are in tenths and weights in hundredths; a score is a numerator *)
(* over a denominator, in tenths; confidences are in hundredths.  The runs *)
(* of the rule-based agent and of the learning engine are the subject of   *)
(* the specifications above: here each returns one of the results its      *)
(* return statements can build.                                            *)
(***************************************************************************)
\* What CookieBannerAgent.processBanner returns.
RuleResults ==
  {[success |-> TRUE, method |-> "button-click", confidence |-> 100,
    buttonClicked |-> TRUE],
   [success |-> TRUE, method |-> "strategy-execution", confidence |-> 60,
    buttonClicked |-> FALSE],
   [success |-> TRUE, method |-> "multi-step-consent", confidence |-> 80,
    buttonClicked |-> FALSE],
   [success |-> FALSE, method |-> "no-safe-button-found", confidence |-> 0,
    buttonClicked |-> FALSE]}

\* What AIEngine.processWithAI returns: the analysis, or the failure object of
\* its catch.  best: buttonAnalysis.bestRejectButton is set.
AIResults ==
  {[useAI |-> FALSE, confidence |-> 0, best |-> FALSE, strategy |-> FALSE],
   [useAI |-> TRUE, confidence |-> 30, best |-> TRUE, strategy |-> TRUE],
   [useAI |-> TRUE, confidence |-> 70, best |-> FALSE, strategy |-> TRUE],
   [useAI |-> TRUE, confidence |-> 100, best |-> TRUE, strategy |-> TRUE]}

\* The banner and document measures of getBannerComplexity,
\* getButtonComplexity, getTextComplexity and getDOMComplexity.
Profiles ==
  {[bannerSize |-> 0, buttonComplexity |-> 0, textComplexity |-> 0, domComplexity |-> 0],
   [bannerSize |-> 0, buttonComplexity |-> 6, textComplexity |-> 0, domComplexity |-> 0],
   [bannerSize |-> 5, buttonComplexity |-> 5, textComplexity |-> 5, domComplexity |-> 5],
   [bannerSize |-> 10, buttonComplexity |-> 10, textComplexity |-> 10, domComplexity |-> 0],
   [bannerSize |-> 10, buttonComplexity |-> 10, textComplexity |-> 10, domComplexity |-> 10]}

HybridClasses == {"cookie-banner", "onetrust-banner-sdk"}

frameworks ==
  <<[name |-> "cookiebot", pattern |-> {"cookiebot", "cb-"}],
    [name |-> "onetrust", pattern |-> {"onetrust", "ot-"}],
    [name |-> "trustarc", pattern |-> {"trustarc", "truste"}],
    [name |-> "quantcast", pattern |-> {"quantcast", "qc-"}],
    [name |-> "didomi", pattern |-> {"didomi", "did-"}],
    [name |-> "consentmanager", pattern |-> {"consentmanager", "cm-"}],
    [name |-> "cookiefirst", pattern |-> {"cookiefirst", "cf-"}],
    [name |-> "cookielaw", pattern |-> {"cookielaw", "cl-"}]>>

\* complexityMap[framework] || 0.5
getFrameworkComplexity(fw) ==
  CASE fw = "cookiebot"      -> 8
    [] fw = "onetrust"       -> 9
    [] fw = "trustarc"       -> 7
    [] fw = "quantcast"      -> 6
    [] fw = "didomi"         -> 8
    [] fw = "consentmanager" -> 5
    [] fw = "cookiefirst"    -> 4
    [] fw = "cookielaw"      -> 3
    [] OTHER                 -> 5

\* The banner has a class attribute and no id: the text tested is the class,
\* the empty id and the attribute names.
detectCookieFramework(cls) ==
  LET text == ToLower(cls \o " " \o "" \o " " \o "class")
      hits == {i \in DOMAIN frameworks : IncludesAny(text, frameworks[i].pattern)}
  IN IF hits = {}
     THEN [name |-> "unknown", complexity |-> 5, detected |-> FALSE]
     ELSE LET fw == frameworks[CHOOSE i \in hits : \A k \in hits : i <= k].name
          IN [name |-> fw, complexity |-> getFrameworkComplexity(fw), detected |-> TRUE]

\* The variant without the catch's default: unreadable storage counts as the
\* hardest history.
getHistoricalDifficultyHardest ==
  LET recentAttempts == SelectSeq(history, LAMBDA a : a.recent)
      n == Len(recentAttempts)
      successes == Cardinality({i \in 1..n : recentAttempts[i].success})
      sumAttempts == n
  IN IF storage = "denied" THEN [num |-> 10, den |-> 1]
     ELSE IF history = <<>> \/ n = 0
     THEN [num |-> 5, den |-> 1]
     ELSE [num |-> 10 * n - 7 * successes - Min(sumAttempts, 3 * n), den |-> n]

\* 1 - successRate * 0.7 - min(avgAttempts / 10, 0.3) over the attempts of
\* the last seven days, as a fraction in tenths; 0.5 without them or when
\* localStorage throws.
getHistoricalDifficulty ==
  LET recentAttempts == SelectSeq(history, LAMBDA a : a.recent)
      n == Len(recentAttempts)
      successes == Cardinality({i \in 1..n : recentAttempts[i].success})
      sumAttempts == n
  IN IF storage = "denied" \/ history = <<>> \/ n = 0
     THEN [num |-> 5, den |-> 1]
     ELSE [num |-> 10 * n - 7 * successes - Min(sumAttempts, 3 * n), den |-> n]

weights ==
  [bannerSize |-> 15, buttonComplexity |-> 25, textComplexity |-> 15,
   domComplexity |-> 15, frameworkDetection |-> 15, historicalDifficulty |-> 15]

\* The variant that takes a score on a threshold for the lower class.
getRecommendationInclusive(num, den) ==
  IF num <= lowComplexity * den THEN "rule-based"
  ELSE IF num >= highComplexity * den THEN "ai-primary"
  ELSE "hybrid"

getRecommendation(num, den) ==
  IF num < lowComplexity * den THEN "rule-based"
  ELSE IF num > highComplexity * den THEN "ai-primary"
  ELSE "hybrid"

\* finalScore = totalScore / totalWeight is num / den.
calculateOverallComplexity(p, fw, hd) ==
  LET totalScore == hd.den * ( p.bannerSize * weights.bannerSize
                             + p.buttonComplexity * weights.buttonComplexity
                             + p.textComplexity * weights.textComplexity
                             + p.domComplexity * weights.domComplexity
                             + fw.complexity * weights.frameworkDetection )
                    + hd.num * weights.historicalDifficulty
      totalWeight == weights.bannerSize + weights.buttonComplexity
                     + weights.textComplexity + weights.domComplexity
                     + weights.frameworkDetection + weights.historicalDifficulty
      num == totalScore
      den == hd.den * totalWeight
  IN [num |-> num, den |-> den,
      level |-> IF num < lowComplexity * den THEN "low"
                ELSE IF num > highComplexity * den THEN "high"
                ELSE "medium",
      recommendation |-> getRecommendation(num, den)]

decideStrategy(cx) ==
  IF engine = "absent"
  THEN [method |-> "rule-based-only", reason |-> "AI engine not available",
        confidence |-> 80, fallback |-> "none", timeout |-> 0]
  ELSE IF engine # "init"
  THEN [method |-> "rule-based-only", reason |-> "AI not initialized",
        confidence |-> 80, fallback |-> "none", timeout |-> 0]
  ELSE CASE cx.recommendation = "rule-based" ->
              [method |-> "rule-based-primary", reason |-> "Low complexity site",
               confidence |-> 90, fallback |-> "ai", timeout |-> 0]
         [] cx.recommendation = "ai-primary" ->
              [method |-> "ai-primary", reason |-> "High complexity site",
               confidence |-> 80, fallback |-> "rule-based", timeout |-> 0]
         [] OTHER ->
              [method |-> "parallel-evaluation",
               reason |-> "Medium complexity - evaluate both",
               confidence |-> 85, fallback |-> "none", timeout |-> ParallelTimeoutMs]

\* confidence || 0.5
OrHalf(c) == IF c = 0 THEN 50 ELSE c

chooseBestResult(r, a) ==
  IF OrHalf(a.confidence) - OrHalf(r.confidence) > significantDifference
  THEN "ai" ELSE "rule-based"

\* clicked: the click of the best reject button was verified; ran: the
\* function executeAIStrategy called succeeded.
processWithAIGuidance(a, clicked, ran) ==
  LET byButton == a.best /\ clicked
      byStrategy == ~byButton /\ a.strategy
      success == IF byStrategy THEN ran ELSE byButton
  IN [success |-> success,
      method |-> IF byStrategy THEN "ai-strategy-execution"
                 ELSE IF a.best THEN "ai-button-selection" ELSE "ai-guided",
      confidence |-> IF success THEN a.confidence ELSE 0,
      buttonClicked |-> FALSE]

\* The AI button is used if rule-based did not click one; the click's outcome
\* is not consulted.
enhanceRuleBasedWithAI(r, a) ==
  IF a.best /\ ~r.buttonClicked
  THEN [r EXCEPT !.success = TRUE, !.buttonClicked = TRUE,
                 !.confidence = Min((r.confidence + a.confidence) \div 2, 95)]
  ELSE r

\* The methods of executeStrategy's results that include 'rule-based', and
\* those that include 'ai'.
RuleBasedMethods == {"rule-based-only", "rule-based-primary", "rule-based-with-ai-fallback"}
AIMethods == {"rule-based-with-ai-fallback", "ai-primary", "ai-with-rule-fallback",
              "parallel-ai-won"}

\* slice(-n)
LastN(s, n) == IF Len(s) <= n THEN s ELSE SubSeq(s, Len(s) - n + 1, Len(s))

\* The variant that keeps the first 50: slice(0, 50).
StoreAttemptKeepFirst(stored, a) == FirstN(Append(stored, a), HistoryKeep)

\* recordOutcome: data.attempts.push(a); data.attempts = data.attempts.slice(-50).
\* Of an attempt's fields the history of processBanner keeps the ones
\* getHistoricalDifficulty reads: success, and the age of the timestamp.
StoreAttempt(stored, a) == LastN(Append(stored, a), HistoryKeep)

\* Where an error raised inside the try block of processBanner goes: a catch
\* that rethrew would reject the call.
OnErrorRethrown == "rejected"

OnError == "emergency"

InitHybrid ==
  /\ engine \in {"absent", "uninit", "init"}
  /\ storage \in {"ok", "denied"}
  /\ profile \in Profiles
  /\ hclass \in HybridClasses
  /\ hframework = detectCookieFramework(hclass)
  /\ cache = NoComplexity
  /\ history = <<>>
  /\ stats = [totalProcessed |-> 0, ruleBasedWins |-> 0, aiWins |-> 0]
  /\ experiences = 0
  /\ callsLeft = MaxCalls
  /\ hpc = "idle"
  /\ complexity = NoComplexity
  /\ strategy = NoStrategy
  /\ ruleResult = NoHResult
  /\ aiResult = NoAIResult
  /\ best = "none"
  /\ stray = {}
  /\ hlog = <<>>
  /\ hresult = NoHResult
  /\ abandoned = FALSE
  /\ ScanIdle
  /\ AgentIdle
  /\ FlowIdle
  /\ TimedIdle
  /\ PageIdle
  /\ ClassifyIdle
  /\ HistoryIdle
  /\ LearnIdle
  /\ AdviceIdle
  /\ LogIdle
  /\ CacheIdle
  /\ DifficultyIdle
  /\ OptimIdle
  /\ ClickIdle
  /\ KillerIdle
  /\ TeardownIdle
  /\ CategoryIdle
  /\ DebounceIdle

\* processBanner is called.
HybridCall ==
  /\ hpc \in {"idle", "done"}
  /\ callsLeft > 0
  /\ callsLeft' = callsLeft - 1
  /\ hpc' = "assess"
  /\ complexity' = NoComplexity
  /\ strategy' = NoStrategy
  /\ ruleResult' = NoHResult
  /\ aiResult' = NoAIResult
  /\ best' = "none"
  /\ hlog' = <<>>
  /\ hresult' = NoHResult
  /\ abandoned' = FALSE
  /\ UNCHANGED <<engine, storage, profile, hclass, hframework, cache, history, stats,
                 experiences, stray>>
  /\ UNCHANGED nonHybridVars

\* Step 1: the cached complexity of the domain, or a fresh one, cached.
analyzeSiteComplexity ==
  /\ hpc = "assess"
  /\ LET cx == IF cache # NoComplexity THEN cache
               ELSE calculateOverallComplexity(profile, hframework, getHistoricalDifficulty)
     IN /\ complexity' = cx
        /\ cache' = cx
  /\ hpc' = "select"
  /\ hlog' = Append(hlog, "assess")
  /\ UNCHANGED <<engine, storage, profile, hclass, hframework, history, stats, experiences,
                 callsLeft, strategy, ruleResult, aiResult, best, stray, hresult>>
  /\ UNCHANGED abandoned
  /\ UNCHANGED nonHybridVars

\* Step 2.
SelectStrategy ==
  /\ hpc = "select"
  /\ strategy' = decideStrategy(complexity)
  /\ hpc' = "execute"
  /\ hlog' = Append(hlog, "select")
  /\ UNCHANGED <<engine, storage, profile, hclass, hframework, cache, history, stats,
                 experiences, callsLeft, complexity, ruleResult, aiResult, best, stray,
                 hresult>>
  /\ UNCHANGED abandoned
  /\ UNCHANGED nonHybridVars

\* Step 3: the strategy's function is called and runs to its first await.
executeStrategy ==
  /\ hpc = "execute"
  /\ hpc' = CASE strategy.method = "rule-based-primary"  -> "rule-primary"
              [] strategy.method = "ai-primary"          -> "ai-primary"
              [] strategy.method = "parallel-evaluation" -> "parallel"
              [] OTHER                                   -> "rule-only"
  /\ hlog' = Append(hlog, "execute")
  /\ UNCHANGED <<engine, storage, profile, hclass, hframework, cache, history, stats,
                 experiences, callsLeft, complexity, strategy, ruleResult, aiResult, best,
                 stray, hresult>>
  /\ UNCHANGED abandoned
  /\ UNCHANGED nonHybridVars

\* The rule-based run returns r: confidence || 0.8.
executeRuleBasedOnly(r) ==
  /\ hpc = "rule-only"
  /\ ruleResult' = r
  /\ hresult' = [r EXCEPT !.method = "rule-based-only",
                          !.confidence = IF r.confidence = 0 THEN 80 ELSE r.confidence]
  /\ hpc' = "record"
  /\ hlog' = Append(hlog, "rule")
  /\ UNCHANGED <<engine, storage, profile, hclass, hframework, cache, history, stats,
                 experiences, callsLeft, complexity, strategy, aiResult, best, stray>>
  /\ UNCHANGED abandoned
  /\ UNCHANGED nonHybridVars

\* executeRuleBasedWithFallback: the rule-based run returns r.
RulePrimaryRule(r) ==
  /\ hpc = "rule-primary"
  /\ ruleResult' = r
  /\ IF r.success /\ r.confidence > confidenceMinimum
     THEN /\ hresult' = [r EXCEPT !.method = "rule-based-primary"]
          /\ hpc' = "record"
     ELSE /\ hpc' = "rule-primary-ai"
          /\ UNCHANGED hresult
  /\ hlog' = Append(hlog, "rule")
  /\ UNCHANGED <<engine, storage, profile, hclass, hframework, cache, history, stats,
                 experiences, callsLeft, complexity, strategy, aiResult, best, stray>>
  /\ UNCHANGED abandoned
  /\ UNCHANGED nonHybridVars

\* The variant that also takes a learning answer of equal confidence.
aiFallbackIsBetterOrEqual(a, r) == a.confidence >= r.confidence

\* executeRuleBasedWithFallback: aiResult.confidence > ruleResult.confidence
aiFallbackIsBetter(a, r) == a.confidence > r.confidence

\* executeRuleBasedWithFallback: processWithAI returns a; verified: the click
\* enhanceRuleBasedWithAI makes found the banner gone, which nothing reads.
RulePrimaryAI(a, verified) ==
  /\ hpc = "rule-primary-ai"
  /\ aiResult' = a
  /\ IF aiFallbackIsBetter(a, ruleResult)
     THEN /\ hresult' = [enhanceRuleBasedWithAI(ruleResult, a)
                           EXCEPT !.method = "rule-based-with-ai-fallback"]
          /\ IF a.best /\ ~ruleResult.buttonClicked
             THEN hlog' = hlog \o <<"ai", IF verified THEN "click" ELSE "click-unverified">>
             ELSE verified /\ hlog' = Append(hlog, "ai")
     ELSE /\ verified
          /\ hresult' = [ruleResult EXCEPT !.method = "rule-based-primary"]
          /\ hlog' = Append(hlog, "ai")
  /\ hpc' = "record"
  /\ UNCHANGED <<engine, storage, profile, hclass, hframework, cache, history, stats,
                 experiences, callsLeft, complexity, strategy, ruleResult, best, stray>>
  /\ UNCHANGED abandoned
  /\ UNCHANGED nonHybridVars

\* executeAIPrimaryWithFallback: processWithAI returns a.
AIPrimaryAI(a) ==
  /\ hpc = "ai-primary"
  /\ aiResult' = a
  /\ hpc' = IF a.useAI /\ a.confidence > confidenceMinimum
            THEN "ai-primary-guide" ELSE "ai-primary-rule"
  /\ hlog' = Append(hlog, "ai")
  /\ UNCHANGED <<engine, storage, profile, hclass, hframework, cache, history, stats,
                 experiences, callsLeft, complexity, strategy, ruleResult, best, stray,
                 hresult>>
  /\ UNCHANGED abandoned
  /\ UNCHANGED nonHybridVars

\* executeAIPrimaryWithFallback: processWithAIGuidance returns.
AIPrimaryGuide(clicked, ran) ==
  /\ hpc = "ai-primary-guide"
  /\ hresult' = [processWithAIGuidance(aiResult, clicked, ran) EXCEPT !.method = "ai-primary"]
  /\ hpc' = "record"
  /\ hlog' = Append(hlog, "ai-guidance")
  /\ UNCHANGED <<engine, storage, profile, hclass, hframework, cache, history, stats,
                 experiences, callsLeft, complexity, strategy, ruleResult, aiResult, best,
                 stray>>
  /\ UNCHANGED abandoned
  /\ UNCHANGED nonHybridVars

\* executeAIPrimaryWithFallback: the rule-based fallback run returns r.
AIPrimaryRule(r) ==
  /\ hpc = "ai-primary-rule"
  /\ ruleResult' = r
  /\ hresult' = [r EXCEPT !.method = "ai-with-rule-fallback"]
  /\ hpc' = "record"
  /\ hlog' = Append(hlog, "rule")
  /\ UNCHANGED <<engine, storage, profile, hclass, hframework, cache, history, stats,
                 experiences, callsLeft, complexity, strategy, aiResult, best, stray>>
  /\ UNCHANGED abandoned
  /\ UNCHANGED nonHybridVars

\* executeParallelEvaluation: the rule-based run of Promise.all returns r.
ParallelRule(r) ==
  /\ hpc = "parallel"
  /\ ruleResult = NoHResult
  /\ ruleResult' = r
  /\ hlog' = Append(hlog, "rule")
  /\ UNCHANGED <<engine, storage, profile, hclass, hframework, cache, history, stats,
                 experiences, callsLeft, hpc, complexity, strategy, aiResult, best, stray,
                 hresult>>
  /\ UNCHANGED abandoned
  /\ UNCHANGED nonHybridVars

\* executeParallelEvaluation: processWithAI of Promise.all returns a.
ParallelAI(a) ==
  /\ hpc = "parallel"
  /\ aiResult = NoAIResult
  /\ aiResult' = a
  /\ hlog' = Append(hlog, "ai")
  /\ UNCHANGED <<engine, storage, profile, hclass, hframework, cache, history, stats,
                 experiences, callsLeft, hpc, complexity, strategy, ruleResult, best, stray,
                 hresult>>
  /\ UNCHANGED abandoned
  /\ UNCHANGED nonHybridVars

\* executeParallelEvaluation: Promise.all wins the race; chooseBestResult.
ParallelChoose ==
  /\ hpc = "parallel"
  /\ ruleResult # NoHResult
  /\ aiResult # NoAIResult
  /\ best' = chooseBestResult(ruleResult, aiResult)
  /\ IF best' = "ai"
     THEN /\ hpc' = "parallel-guide"
          /\ UNCHANGED hresult
     ELSE /\ hpc' = "record"
          /\ hresult' = [ruleResult EXCEPT !.method = "parallel-rule-won"]
  /\ UNCHANGED <<engine, storage, profile, hclass, hframework, cache, history, stats,
                 experiences, callsLeft, complexity, strategy, ruleResult, aiResult, stray,
                 hlog>>
  /\ UNCHANGED abandoned
  /\ UNCHANGED nonHybridVars

\* executeParallelEvaluation: processWithAIGuidance returns.
ParallelGuide(clicked, ran) ==
  /\ hpc = "parallel-guide"
  /\ hresult' = [processWithAIGuidance(aiResult, clicked, ran)
                   EXCEPT !.method = "parallel-ai-won"]
  /\ hpc' = "record"
  /\ hlog' = Append(hlog, "ai-guidance")
  /\ UNCHANGED <<engine, storage, profile, hclass, hframework, cache, history, stats,
                 experiences, callsLeft, complexity, strategy, ruleResult, aiResult, best,
                 stray>>
  /\ UNCHANGED abandoned
  /\ UNCHANGED nonHybridVars

\* executeParallelEvaluation: the timer wins the race; the runs of Promise.all
\* that have not returned keep running, their results are dropped.
ParallelTimeout ==
  /\ hpc = "parallel"
  /\ ruleResult = NoHResult \/ aiResult = NoAIResult
  /\ stray' = stray \cup (IF ruleResult = NoHResult THEN {"rule"} ELSE {})
                    \cup (IF aiResult = NoAIResult THEN {"ai"} ELSE {})
  /\ hpc' = "parallel-fallback"
  /\ UNCHANGED <<engine, storage, profile, hclass, hframework, cache, history, stats,
                 experiences, callsLeft, complexity, strategy, ruleResult, aiResult, best,
                 hlog, hresult>>
  /\ UNCHANGED abandoned
  /\ UNCHANGED nonHybridVars

\* executeParallelEvaluation, catch: the rule-based run returns r.
ParallelFallback(r) ==
  /\ hpc = "parallel-fallback"
  /\ ruleResult' = r
  /\ hresult' = [r EXCEPT !.method = "parallel-fallback"]
  /\ hpc' = "record"
  /\ hlog' = Append(hlog, "rule")
  /\ UNCHANGED <<engine, storage, profile, hclass, hframework, cache, history, stats,
                 experiences, callsLeft, complexity, strategy, aiResult, best, stray>>
  /\ UNCHANGED abandoned
  /\ UNCHANGED nonHybridVars

\* A run the parallel timer left behind comes to its end.
StrayEnds(x) ==
  /\ x \in stray
  /\ stray' = stray \ {x}
  /\ UNCHANGED <<engine, storage, profile, hclass, hframework, cache, history, stats,
                 experiences, callsLeft, hpc, complexity, strategy, ruleResult, aiResult,
                 best, hlog, hresult>>
  /\ UNCHANGED abandoned
  /\ UNCHANGED nonHybridVars

\* Step 4 and the return: the statistics, the attempt appended to the domain's
\* history unless localStorage throws, and this.aiEngine.isInitialized, which
\* throws without an engine; learnFromOutcome records an experience.
recordOutcome ==
  /\ hpc = "record"
  /\ stats' = [totalProcessed |-> stats.totalProcessed + 1,
               ruleBasedWins  |-> stats.ruleBasedWins
                                  + (IF hresult.method \in RuleBasedMethods /\ hresult.success
                                     THEN 1 ELSE 0),
               aiWins         |-> stats.aiWins
                                  + (IF hresult.method \in AIMethods /\ hresult.success
                                     THEN 1 ELSE 0)]
  /\ history' = IF storage = "ok"
                THEN StoreAttempt(history, [success |-> hresult.success, recent |-> TRUE])
                ELSE history
  /\ LET stored == IF storage = "ok" THEN <<"record", "append">> ELSE <<"record">>
     IN IF engine = "absent"
        THEN /\ hpc' = OnError
             /\ hlog' = hlog \o stored \o <<"catch">>
             /\ UNCHANGED experiences
        ELSE /\ hpc' = "done"
             /\ experiences' = IF engine = "init" THEN experiences + 1 ELSE experiences
             /\ hlog' = hlog \o stored
                        \o (IF engine = "init" THEN <<"learn">> ELSE <<>>) \o <<"return">>
  /\ UNCHANGED <<engine, storage, profile, hclass, hframework, cache, callsLeft, complexity,
                 strategy, ruleResult, aiResult, best, stray, hresult>>
  /\ abandoned' = (abandoned /\ hpc' # "done")   \* kept while the call runs
  /\ UNCHANGED nonHybridVars

\* processBanner, catch: the emergency rule-based run returns r, and r is
\* returned.
EmergencyFallback(r) ==
  /\ hpc = "emergency"
  /\ ruleResult' = r
  /\ hresult' = r
  /\ hpc' = "done"
  /\ hlog' = hlog \o <<"rule", "return">>
  /\ UNCHANGED <<engine, storage, profile, hclass, hframework, cache, history, stats,
                 experiences, callsLeft, complexity, strategy, aiResult, best, stray>>
  /\ abandoned' = (abandoned /\ hpc' # "done")   \* kept while the call runs
  /\ UNCHANGED nonHybridVars

\* aiEngine.initialize(), started in the background, completes.
EngineReady ==
  /\ engine = "uninit"
  /\ engine' = "init"
  /\ UNCHANGED <<storage, profile, hclass, hframework, cache, history, stats, experiences,
                 callsLeft, hpc, complexity, strategy, ruleResult, aiResult, best, stray,
                 hlog, hresult>>
  /\ UNCHANGED abandoned
  /\ UNCHANGED nonHybridVars

\* The one-hour timer of analyzeSiteComplexity deletes the cached complexity;
\* it matters to the next call only.
CacheExpire ==
  /\ hpc = "done"
  /\ callsLeft > 0
  /\ cache # NoComplexity
  /\ cache' = NoComplexity
  /\ UNCHANGED <<engine, storage, profile, hclass, hframework, history, stats, experiences,
                 callsLeft, hpc, complexity, strategy, ruleResult, aiResult, best, stray,
                 hlog, hresult>>
  /\ UNCHANGED abandoned
  /\ UNCHANGED nonHybridVars

\* Seven days pass between two calls: the stored attempts are no longer recent.
WeekPasses ==
  /\ hpc = "done"
  /\ callsLeft > 0
  /\ \E i \in DOMAIN history : history[i].recent
  /\ history' = [i \in DOMAIN history |-> [history[i] EXCEPT !.recent = FALSE]]
  /\ UNCHANGED <<engine, storage, profile, hclass, hframework, cache, stats, experiences,
                 callsLeft, hpc, complexity, strategy, ruleResult, aiResult, best, stray,
                 hlog, hresult>>
  /\ UNCHANGED abandoned
  /\ UNCHANGED nonHybridVars

\* AntiEvasionCookieKiller.processBanner: the 5 s timer wins the race against
\* the call, which goes on; a timer fires only while the call awaits a run.
AwaitingRun ==
  hpc \in {"rule-only", "rule-primary", "rule-primary-ai", "ai-primary",
           "ai-primary-guide", "ai-primary-rule", "parallel", "parallel-guide",
           "parallel-fallback", "emergency"}

HybridTimeout ==
  /\ AwaitingRun
  /\ ~abandoned
  /\ abandoned' = TRUE
  /\ UNCHANGED <<engine, storage, profile, hclass, hframework, cache, history, stats,
                 experiences, callsLeft, hpc, complexity, strategy, ruleResult, aiResult,
                 best, stray, hlog, hresult>>
  /\ UNCHANGED nonHybridVars

NextHybrid ==
  \/ HybridCall
  \/ analyzeSiteComplexity
  \/ SelectStrategy
  \/ executeStrategy
  \/ \E r \in RuleResults : executeRuleBasedOnly(r)
  \/ \E r \in RuleResults : RulePrimaryRule(r)
  \/ \E a \in AIResults, verified \in BOOLEAN : RulePrimaryAI(a, verified)
  \/ \E a \in AIResults : AIPrimaryAI(a)
  \/ \E clicked \in BOOLEAN, ran \in BOOLEAN : AIPrimaryGuide(clicked, ran)
  \/ \E r \in RuleResults : AIPrimaryRule(r)
  \/ \E r \in RuleResults : ParallelRule(r)
  \/ \E a \in AIResults : ParallelAI(a)
  \/ ParallelChoose
  \/ \E clicked \in BOOLEAN, ran \in BOOLEAN : ParallelGuide(clicked, ran)
  \/ ParallelTimeout
  \/ \E r \in RuleResults : ParallelFallback(r)
  \/ \E x \in {"rule", "ai"} : StrayEnds(x)
  \/ recordOutcome
  \/ \E r \in RuleResults : EmergencyFallback(r)
  \/ HybridTimeout
  \/ EngineReady
  \/ CacheExpire
  \/ WeekPasses

SpecHybrid == InitHybrid /\ [][NextHybrid]_vars

Caught == \E i \in DOMAIN hlog : hlog[i] = "catch"

StageEvents == {"assess", "select", "execute", "record"}
RunEvents == {"rule", "ai", "ai-guidance", "click", "click-unverified"}

C6_StagesOnceInOrder ==
  hpc = "done" =>
    /\ SelectSeq(hlog, LAMBDA e : e \in StageEvents)
         = <<"assess", "select", "execute", "record">>
    /\ Cardinality({i \in DOMAIN hlog : hlog[i] = "append"}) = 1
    /\ \A i, k \in DOMAIN hlog :
         hlog[i] = "record" /\ k > i => hlog[k] \notin RunEvents
    /\ stray = {}

(***************************************************************************)
(* C7, as stated: the strategy decideStrategy returns is rule-only when    *)
(* the engine is absent or not initialized; otherwise rule-only for a      *)
(* score below 0.3, parallel evaluation with a 2 s timeout for a score     *)
(* from 0.3 to 0.7, learning-primary with rule-based fallback for a score  *)
(* above 0.7; level and recommendation agree.                              *)
(***************************************************************************)
LevelAgrees(cx) ==
  /\ cx.level = "low" <=> cx.num < lowComplexity * cx.den
  /\ cx.level = "high" <=> cx.num > highComplexity * cx.den
  /\ cx.level \in {"low", "medium", "high"}
  /\ cx.level = "low" <=> cx.recommendation = "rule-based"
  /\ cx.level = "medium" <=> cx.recommendation = "hybrid"
  /\ cx.level = "high" <=> cx.recommendation = "ai-primary"

StrategyTable(cx, st, lowMethod) ==
  /\ LevelAgrees(cx)
  /\ engine # "init" => st.method = "rule-based-only"
  /\ engine = "init" =>
       /\ cx.level = "low" => st.method = lowMethod
       /\ cx.level = "medium" =>
            st.method = "parallel-evaluation" /\ st.timeout = ParallelTimeoutMs
       /\ cx.level = "high" =>
            st.method = "ai-primary" /\ st.fallback = "rule-based"

C7_LowIsRuleOnly ==
  [][hpc = "select" /\ hpc' = "execute"
       => StrategyTable(complexity, strategy', "rule-based-only")]_vars

(***************************************************************************)
(* C7, amended: as stated, except that with an initialized engine a score  *)
(* below 0.3 selects rule-based-primary, whose fallback is the learning    *)
(* path.                                                                   *)
(***************************************************************************)
C7_LowIsRulePrimary ==
  [][hpc = "select" /\ hpc' = "execute"
       => /\ StrategyTable(complexity, strategy', "rule-based-primary")
          /\ strategy'.method = "rule-based-primary" => strategy'.fallback = "ai"]_vars

C7_Witness ==
  /\ hpc = "execute"
  /\ complexity.level = "low"
  /\ strategy.method = "rule-based-primary"

(***************************************************************************)
(* C8: when chooseBestResult has chosen, the learning-path answer was      *)
(* chosen if and only if its confidence exceeds the rule-path's by more    *)
(* than 0.2.                                                               *)
(***************************************************************************)
C8_AIChosenIffExceeds ==
  best # "none" =>
    (best = "ai" <=> aiResult.confidence - ruleResult.confidence > significantDifference)

(***************************************************************************)
(* C17: when executeRuleBasedWithFallback has returned, its result is the  *)
(* rule-based result under the method rule-based-primary, with the         *)
(* learning path not invoked, if that result reports success with a        *)
(* confidence above 0.6; otherwise the learning path was invoked once, and *)
(* the result is the rule-based result enhanced by the learning answer if  *)
(* the answer's confidence is greater than the rule-based result's, and    *)
(* the rule-based result under the method rule-based-primary if it is not. *)
(***************************************************************************)
Count(log, e) == Cardinality({i \in DOMAIN log : log[i] = e})

C17_RulePrimaryFallback ==
  hpc = "record" /\ strategy.method = "rule-based-primary" =>
    /\ Count(hlog, "rule") = 1
    /\ IF ruleResult.success /\ ruleResult.confidence > confidenceMinimum
       THEN /\ Count(hlog, "ai") = 0
            /\ hresult = [ruleResult EXCEPT !.method = "rule-based-primary"]
       ELSE /\ Count(hlog, "ai") = 1
            /\ IF aiResult.confidence > ruleResult.confidence
               THEN /\ hresult.method = "rule-based-with-ai-fallback"
                    /\ hresult = [enhanceRuleBasedWithAI(ruleResult, aiResult)
                                    EXCEPT !.method = "rule-based-with-ai-fallback"]
               ELSE hresult = [ruleResult EXCEPT !.method = "rule-based-primary"]

C17_Witness ==
  /\ hpc = "record"
  /\ strategy.method = "rule-based-primary"
  /\ hresult.method = "rule-based-with-ai-fallback"
  /\ aiResult.confidence > ruleResult.confidence
  /\ ~(ruleResult.success /\ ruleResult.confidence > confidenceMinimum)

(***************************************************************************)
(* C26: with storage that throws on every read and write, the call         *)
(* completes without raising, the historical difficulty is 0.5, and the    *)
(* complexity and the strategy are those of a call with working, empty     *)
(* storage.                                                                *)
(***************************************************************************)
EmptyStorageComplexity ==
  calculateOverallComplexity(profile, hframework, [num |-> 5, den |-> 1])

StorageUnavailable ==
  /\ storage = "denied" =>
       /\ history = <<>>
       /\ complexity # NoComplexity => complexity = EmptyStorageComplexity
       /\ engine # "absent" => hpc # "emergency" /\ Count(hlog, "catch") = 0
  /\ storage = "ok" /\ history = <<>> /\ complexity # NoComplexity =>
       complexity = EmptyStorageComplexity

C26_StorageUnavailable ==
  /\ []StorageUnavailable
  /\ [][SelectStrategy /\ storage = "denied" =>
          strategy' = decideStrategy(EmptyStorageComplexity)]_vars

C26_Witness ==
  /\ storage = "denied"
  /\ engine = "init"
  /\ hpc = "done"
  /\ stats.totalProcessed = 2
  /\ experiences = 2
  /\ hresult.success
  /\ strategy.method # "rule-based-only"

(***************************************************************************)
(* C28: a coordinator without a learning engine runs the rule-based agent  *)
(* on the banner exactly once, records one outcome, and returns that run's *)
(* result with method 'rule-based-only'.                                   *)
(***************************************************************************)
C28_NoEngineRunsOnce ==
  engine = "absent" /\ hpc = "done" =>
    /\ Count(hlog, "rule") = 1
    /\ Count(hlog, "record") = 1
    /\ hresult.method = "rule-based-only"

(***************************************************************************)
(* C29: at most one rule-based run of the banner is in flight during a     *)
(* call: while the fallback run of the parallel evaluation executes, the   *)
(* rule-based run the timed-out race started is no longer running.         *)
(***************************************************************************)
C29_OneRuleRunInFlight ==
  hpc = "parallel-fallback" => "rule" \notin stray

(***************************************************************************)
(* C30: a result with success true that executeStrategy builds from the    *)
(* rule-based run is backed by that run's own success or by a click whose  *)
(* verification found the banner gone; success is never reported for a     *)
(* click whose verification failed.                                        *)
(***************************************************************************)
RuleDerivedMethods ==
  {"rule-based-only", "rule-based-primary", "rule-based-with-ai-fallback",
   "parallel-rule-won", "parallel-fallback", "ai-with-rule-fallback"}

C30_SuccessIsVerified ==
  hpc = "record" /\ hresult.success /\ hresult.method \in RuleDerivedMethods =>
    /\ ruleResult.success \/ Count(hlog, "click") > 0
    /\ Count(hlog, "click-unverified") = 0

(***************************************************************************)
(* C11: a step of a run that lost its race to a timer (the processBanner   *)
(* call after the caller's 5 s timer has won, a run the 2 s timer of the   *)
(* parallel evaluation left behind) records nothing in the domain history  *)
(* and feeds nothing to the learning engine.                               *)
(***************************************************************************)
LoserStep ==
  \/ abandoned /\ hpc' # hpc
  \/ stray' # stray /\ stray' \subseteq stray

C11_LoserResultDiscarded ==
  [][LoserStep => history' = history /\ experiences' = experiences]_vars

(***************************************************************************)
(* Timers: one HybridCoordinator.processBanner call (parallel evaluation,  *)
(* or a single rule-based run) with the time of its awaits.  The clock     *)
(* advances in steps of the shortest timer, the 500 ms poll, and stands    *)
(* still while a timer is due; timers due together fire in any order.      *)
(* What a timer races (the analysis, the functions of the rule-based       *)
(* phases, the rest of the multi-step flow after its poll) completes at    *)
(* any time or never.  A run whose race was lost is not followed further,  *)
(* except the multi-step flow of the last run, whose poll goes on.         *)
(***************************************************************************)
\* The variant in which no timer callback ever runs.
NeverExpired(since, bound) == FALSE

\* setTimeout(callback, bound), registered at since, is due.
Expired(since, bound) == since >= 0 /\ clock >= since + bound

PhaseNames == <<"phase1", "phase2", "phase3">>

\* processBanner: 3000, 3000 and 10000.
PhaseBound(k) == IF k = 3 THEN MultiStepTimeoutMs ELSE PhaseTimeoutMs

\* The timers registered and not yet fired or dropped: registration time and
\* delay.
ArmedTimers ==
  (IF tpc = "race" THEN {<<raceSince, ParallelTimeoutMs>>} ELSE {})
  \cup (IF aiAnalysis.state = "running" THEN {<<aiAnalysis.since, maxProcessingTime>>} ELSE {})
  \cup (IF run.state = "wait" THEN {<<run.since, PhaseBound(run.phase)>>} ELSE {})
  \cup (IF verifySince >= 0 THEN {<<verifySince, ClickVerifyMs>>} ELSE {})
  \cup (IF flowT.stage = "poll" THEN {<<flowT.pollSince, PollMs>>} ELSE {})

InitTimed ==
  /\ clock = 0
  /\ tpc \in {"start-parallel", "start-rule"}
  /\ raceSince = -1
  /\ aiAnalysis = NoAnalysis
  /\ run = NoRun
  /\ verifySince = -1
  /\ flowT = NoFlowT
  /\ expired = {}
  /\ tresult = "none"
  /\ ScanIdle
  /\ AgentIdle
  /\ FlowIdle
  /\ HybridIdle
  /\ PageIdle
  /\ ClassifyIdle
  /\ HistoryIdle
  /\ LearnIdle
  /\ AdviceIdle
  /\ LogIdle
  /\ CacheIdle
  /\ DifficultyIdle
  /\ OptimIdle
  /\ ClickIdle
  /\ KillerIdle
  /\ TeardownIdle
  /\ CategoryIdle
  /\ DebounceIdle

\* executeParallelEvaluation up to its await: the rule-based run and
\* processWithAI are started, the race timer is set.
RaceStart ==
  /\ tpc = "start-parallel"
  /\ tpc' = "race"
  /\ raceSince' = clock
  /\ aiAnalysis' = [state |-> "running", since |-> clock]
  /\ run' = FreshRun
  /\ UNCHANGED <<clock, verifySince, flowT, expired, tresult>>
  /\ UNCHANGED nonTimedVars

\* executeRuleBasedOnly up to its await.
RuleOnlyStart ==
  /\ tpc = "start-rule"
  /\ tpc' = "rule-run"
  /\ run' = FreshRun
  /\ UNCHANGED <<clock, raceSince, aiAnalysis, verifySince, flowT, expired, tresult>>
  /\ UNCHANGED nonTimedVars

\* Phase 1 or 2 of CookieBannerAgent.processBanner starts: its function has n
\* buttons to try; it clicks the first, or fails at once without one.
PhaseStart(n) ==
  /\ run.state = "start"
  /\ run.phase \in {1, 2}
  /\ IF n = 0
     THEN /\ run' = [run EXCEPT !.phase = @ + 1]
          /\ UNCHANGED verifySince
     ELSE /\ run' = [run EXCEPT !.state = "wait", !.since = clock, !.todo = n - 1]
          /\ verifySince' = clock
  /\ UNCHANGED <<clock, tpc, raceSince, aiAnalysis, flowT, expired, tresult>>
  /\ UNCHANGED nonTimedVars

\* Phase 3 starts: handleMultiStepConsent clicks the preference button if it
\* finds one, and goes on to its other handlers if not.
MultiStepStart(pref) ==
  /\ run.state = "start"
  /\ run.phase = 3
  /\ run' = [run EXCEPT !.state = "wait", !.since = clock]
  /\ flowT' = [NoFlowT EXCEPT !.stage = IF pref THEN "click" ELSE "rest"]
  /\ verifySince' = IF pref THEN clock ELSE -1
  /\ UNCHANGED <<clock, tpc, raceSince, aiAnalysis, expired, tresult>>
  /\ UNCHANGED nonTimedVars

\* The verification timer of a click of phase 1 or 2 fires: the phase's
\* function succeeds, clicks its next button, or fails.
ClickVerified(gone) ==
  /\ run.state = "wait"
  /\ run.phase \in {1, 2}
  /\ Expired(verifySince, ClickVerifyMs)
  /\ IF gone
     THEN /\ run' = [NoRun EXCEPT !.res = "ok"]
          /\ verifySince' = -1
     ELSE IF run.todo > 0
     THEN /\ run' = [run EXCEPT !.todo = @ - 1]
          /\ verifySince' = clock
     ELSE /\ run' = [run EXCEPT !.phase = @ + 1, !.state = "start", !.since = -1]
          /\ verifySince' = -1
  /\ UNCHANGED <<clock, tpc, raceSince, aiAnalysis, flowT, expired, tresult>>
  /\ UNCHANGED nonTimedVars

\* The verification timer of the preference click fires: its outcome is not
\* used, waitForPreferencesPage sets its first poll timer.
FlowClickVerified ==
  /\ flowT.stage = "click"
  /\ Expired(verifySince, ClickVerifyMs)
  /\ flowT' = [flowT EXCEPT !.stage = "poll", !.pollSince = clock]
  /\ verifySince' = -1
  /\ UNCHANGED <<clock, tpc, raceSince, aiAnalysis, run, expired, tresult>>
  /\ UNCHANGED nonTimedVars

\* checkForPreferences: resolve when an indicator is found or at maxAttempts,
\* else poll again.
PollFires(foundPreferences) ==
  /\ flowT.stage = "poll"
  /\ Expired(flowT.pollSince, PollMs)
  /\ IF foundPreferences \/ flowT.attempts + 1 >= maxAttempts
     THEN flowT' = [flowT EXCEPT !.attempts = @ + 1, !.stage = "rest", !.pollSince = -1]
     ELSE flowT' = [flowT EXCEPT !.attempts = @ + 1, !.pollSince = clock]
  /\ expired' = IF ~foundPreferences /\ flowT.attempts + 1 >= maxAttempts
                THEN expired \cup {"poll"} ELSE expired
  /\ UNCHANGED <<clock, tpc, raceSince, aiAnalysis, run, verifySince, tresult>>
  /\ UNCHANGED nonTimedVars

\* The rest of handleMultiStepConsent comes to its end; phase 3 takes its
\* result if it is still waiting.
FlowCompletes(ok) ==
  /\ flowT.stage = "rest"
  /\ flowT' = [flowT EXCEPT !.stage = "done"]
  /\ run' = IF run.phase = 3 /\ run.state = "wait"
            THEN [NoRun EXCEPT !.res = IF ok THEN "ok" ELSE "fail"]
            ELSE run
  /\ UNCHANGED <<clock, tpc, raceSince, aiAnalysis, verifySince, expired, tresult>>
  /\ UNCHANGED nonTimedVars

\* The timer of a phase wins its race: phases 1 and 2 go on to the next
\* phase, phase 3 ends the run without success.
PhaseTimerFires ==
  /\ run.state = "wait"
  /\ Expired(run.since, PhaseBound(run.phase))
  /\ expired' = expired \cup {PhaseNames[run.phase]}
  /\ IF run.phase < 3
     THEN /\ run' = [run EXCEPT !.phase = @ + 1, !.state = "start", !.since = -1]
          /\ verifySince' = -1
     ELSE /\ run' = [NoRun EXCEPT !.res = "fail"]
          /\ UNCHANGED verifySince
  /\ UNCHANGED <<clock, tpc, raceSince, aiAnalysis, flowT, tresult>>
  /\ UNCHANGED nonTimedVars

\* performAIAnalysis resolves.
AnalysisCompletes ==
  /\ aiAnalysis.state = "running"
  /\ aiAnalysis' = [state |-> "done", since |-> -1]
  /\ UNCHANGED <<clock, tpc, raceSince, run, verifySince, flowT, expired, tresult>>
  /\ UNCHANGED nonTimedVars

\* processWithAI: the timer wins, the catch returns the failure object.
AnalysisTimeout ==
  /\ aiAnalysis.state = "running"
  /\ Expired(aiAnalysis.since, maxProcessingTime)
  /\ aiAnalysis' = [state |-> "failed", since |-> -1]
  /\ expired' = expired \cup {"analysis"}
  /\ UNCHANGED <<clock, tpc, raceSince, run, verifySince, flowT, tresult>>
  /\ UNCHANGED nonTimedVars

\* Promise.all wins the race: the rule-path answer is returned, or
\* processWithAIGuidance clicks the best reject button or, without one, has
\* executeAIStrategy call processBanner.
RaceSettles(choice) ==
  /\ tpc = "race"
  /\ run.res \in {"ok", "fail"}
  /\ aiAnalysis.state \in {"done", "failed"}
  /\ choice # "rule" => aiAnalysis.state = "done"
  /\ raceSince' = -1
  /\ CASE choice = "rule" ->
            /\ tpc' = "returned"
            /\ tresult' = run.res
            /\ UNCHANGED <<run, verifySince>>
       [] choice = "ai-button" ->
            /\ tpc' = "guide"
            /\ verifySince' = clock
            /\ UNCHANGED <<run, tresult>>
       [] OTHER ->
            /\ tpc' = "rule-run"
            /\ run' = FreshRun
            /\ UNCHANGED <<verifySince, tresult>>
  /\ UNCHANGED <<clock, aiAnalysis, flowT, expired>>
  /\ UNCHANGED nonTimedVars

\* The verification timer of the guided click fires: success, or
\* executeAIStrategy calls processBanner.
GuideClickVerified(gone) ==
  /\ tpc = "guide"
  /\ Expired(verifySince, ClickVerifyMs)
  /\ verifySince' = -1
  /\ IF gone
     THEN /\ tpc' = "returned"
          /\ tresult' = "ok"
          /\ UNCHANGED run
     ELSE /\ tpc' = "rule-run"
          /\ run' = FreshRun
          /\ UNCHANGED tresult
  /\ UNCHANGED <<clock, raceSince, aiAnalysis, flowT, expired>>
  /\ UNCHANGED nonTimedVars

\* The race timer wins: the catch starts the fallback rule-based run.
RaceTimeout ==
  /\ tpc = "race"
  /\ Expired(raceSince, ParallelTimeoutMs)
  /\ tpc' = "rule-run"
  /\ raceSince' = -1
  /\ run' = FreshRun
  /\ aiAnalysis' = NoAnalysis
  /\ verifySince' = -1
  /\ flowT' = NoFlowT
  /\ expired' = expired \cup {"race"}
  /\ UNCHANGED <<clock, tresult>>
  /\ UNCHANGED nonTimedVars

\* The awaited rule-based run has returned: recordOutcome, and processBanner
\* returns.
TimedReturn ==
  /\ tpc = "rule-run"
  /\ run.res \in {"ok", "fail"}
  /\ tpc' = "returned"
  /\ tresult' = run.res
  /\ UNCHANGED <<clock, raceSince, aiAnalysis, run, verifySince, flowT, expired>>
  /\ UNCHANGED nonTimedVars

\* Code that runs without waiting comes before any passing of time.
Immediate ==
  \/ tpc \in {"start-parallel", "start-rule"}
  \/ run.state = "start"
  \/ tpc = "rule-run" /\ run.res \in {"ok", "fail"}
  \/ tpc = "race" /\ run.res \in {"ok", "fail"} /\ aiAnalysis.state \in {"done", "failed"}

\* Time passes while a timer is armed and none is due.
ClockTick ==
  /\ ArmedTimers # {}
  /\ \A t \in ArmedTimers : ~Expired(t[1], t[2])
  /\ ~Immediate
  /\ clock + PollMs <= HorizonMs
  /\ clock' = clock + PollMs
  /\ UNCHANGED <<tpc, raceSince, aiAnalysis, run, verifySince, flowT, expired, tresult>>
  /\ UNCHANGED nonTimedVars

\* The steps of the program and of its timers.
Progress ==
  \/ RaceStart
  \/ RuleOnlyStart
  \/ \E n \in 0..MaxClicks : PhaseStart(n)
  \/ \E pref \in BOOLEAN : MultiStepStart(pref)
  \/ \E gone \in BOOLEAN : ClickVerified(gone)
  \/ FlowClickVerified
  \/ \E foundPreferences \in BOOLEAN : PollFires(foundPreferences)
  \/ PhaseTimerFires
  \/ AnalysisTimeout
  \/ \E choice \in {"rule", "ai-button", "ai-strategy"} : RaceSettles(choice)
  \/ \E gone \in BOOLEAN : GuideClickVerified(gone)
  \/ RaceTimeout
  \/ TimedReturn
  \/ ClockTick

\* What the timers race: it may never happen.
Completion ==
  \/ AnalysisCompletes
  \/ \E ok \in BOOLEAN : FlowCompletes(ok)

NextTimed == Progress \/ Completion

SpecTimed == InitTimed /\ [][NextTimed]_vars /\ WF_vars(Progress)

(***************************************************************************)
(* C10: every armed timer fires within its delay (the analysis within 2 s, *)
(* a click verification 1 s after the click, the phases of the rule-based  *)
(* run within 3 s, 3 s and 10 s, the parallel race within 2 s), the poll   *)
(* of waitForPreferencesPage ends within 20 polls, and every step that     *)
(* waits has a timer armed; the processBanner call eventually returns,     *)
(* whether or not what the timers race ever completes.                     *)
(***************************************************************************)
StepsWithinBounds ==
  /\ \A t \in ArmedTimers : t[1] >= 0 /\ clock <= t[1] + t[2]
  /\ flowT.attempts <= maxAttempts
  /\ flowT.stage = "poll" => flowT.attempts < maxAttempts
  /\ tpc \in {"race", "guide", "rule-run"} /\ ~Immediate => ArmedTimers # {}

C10_BoundedAndReturns ==
  /\ []StepsWithinBounds
  /\ <>(tpc = "returned")

C10_Witness ==
  /\ tpc = "returned"
  /\ {"race", "analysis", "poll", "phase1", "phase2", "phase3"} \subseteq expired
  /\ flowT.attempts = maxAttempts

(***************************************************************************)
(* AntiEvasionCookieKiller.initialize, the scans and performDeepScan, as   *)
(* far as they change the page: the style element of injectAdvancedScript, *)
(* the inline style performDeepScan sets and restores, and the clicks of   *)
(* processBanner.  What processBanner does with a banner is the subject of *)
(* the specifications above: here a call dismisses the banner by a click,  *)
(* clicks in vain, or finds nothing to click.                              *)
(***************************************************************************)
El(cls, id, style, text, banner) ==
  [cls |-> cls, id |-> id, style |-> style, text |-> text, banner |-> banner]

\* banner: the content, context and button checks of isValidCookieBanner pass.
ElementPool ==
  { El("cookie-banner", "", "", "we use cookies", TRUE),
    El("gdpr-notice", "", "", "we use cookies", TRUE),
    El("", "onetrust-banner-sdk", "", "your privacy", TRUE),
    El("consent-layer hidden", "", "", "we use cookies", TRUE),
    El("privacy-popup", "", "display: none", "we use cookies", TRUE),
    El("newsletter", "", "display: none", "subscribe", FALSE) }

\* The selectors of the injected rule: display: none !important.
InjectedRuleMatches(e) ==
  \/ Includes(e.cls, "cookie-banner")
  \/ Includes(e.cls, "consent-banner")
  \/ Includes(e.id, "cookie-consent")
  \/ HasClass(e.cls, "cookiebot-banner")
  \/ e.id = "onetrust-banner-sdk"

\* performDeepScan's selector of hidden elements; the page hides them.
HiddenSelectorMatches(e) ==
  \/ Includes(e.style, "display: none")
  \/ Includes(e.style, "visibility: hidden")
  \/ HasClass(e.cls, "hidden")
  \/ HasClass(e.cls, "invisible")

isLikelyCookieElement(e) ==
  \E keyword \in {"cookie", "consent", "privacy", "gdpr", "accept", "decline", "reject"} :
    \/ Includes(ToLower(e.text), keyword)
    \/ Includes(ToLower(e.cls), keyword)
    \/ Includes(ToLower(e.id), keyword)

ElementFeatures(e) ==
  [bySheet |-> InjectedRuleMatches(e), hidden |-> HiddenSelectorMatches(e),
   likely |-> isLikelyCookieElement(e), banner |-> e.banner]

ElementIndices == DOMAIN els

\* The page itself shows the element.
PageShows(i) == ~elFeat[i].hidden

\* isElementVisible: the injected rule is !important and wins over the inline
\* style of performDeepScan, which wins over the page's own hiding.
Displayed(i) ==
  /\ ~(sheet /\ elFeat[i].bySheet)
  /\ PageShows(i) \/ restyled = i
  /\ i \notin removed

\* isValidCookieBanner, of a banner processBanner has not dismissed.
ValidBanner(i) == Displayed(i) /\ elFeat[i].banner

ProcessOutcomes == {"dismissed", "clicked-in-vain", "nothing-clicked"}

ProcessEffects(outcome) == IF outcome = "nothing-clicked" THEN {} ELSE {"click"}

InitPage ==
  /\ els \in [1..NumNodes -> ElementPool]
  /\ elFeat = [i \in 1..NumNodes |-> ElementFeatures(els[i])]
  /\ sheet = FALSE
  /\ restyled = 0
  /\ cursor = 0
  /\ ppc = "new"
  /\ removed = {}
  /\ deepScans = 0
  /\ effects = {}
  /\ ScanIdle
  /\ AgentIdle
  /\ FlowIdle
  /\ HybridIdle
  /\ TimedIdle
  /\ ClassifyIdle
  /\ HistoryIdle
  /\ LearnIdle
  /\ AdviceIdle
  /\ LogIdle
  /\ CacheIdle
  /\ DifficultyIdle
  /\ OptimIdle
  /\ ClickIdle
  /\ KillerIdle
  /\ TeardownIdle
  /\ CategoryIdle
  /\ DebounceIdle

\* injectAdvancedScript: the style element is appended to document.head.
injectAdvancedScript == [sheet |-> TRUE, effects |-> {"style-injected"}]

\* initialize, up to the immediate scan.
Initialize ==
  /\ ppc = "new"
  /\ sheet' = injectAdvancedScript.sheet
  /\ effects' = effects \cup injectAdvancedScript.effects
  /\ ppc' = "ready"
  /\ UNCHANGED <<els, elFeat, restyled, cursor, removed, deepScans>>
  /\ UNCHANGED nonPageVars

\* A scan finds banner i and processBanner runs on it.
ScanProcesses(i, outcome) ==
  /\ ppc = "ready"
  /\ ValidBanner(i)
  /\ removed' = IF outcome = "dismissed" THEN removed \cup {i} ELSE removed
  /\ effects' = effects \cup ProcessEffects(outcome)
  /\ UNCHANGED <<els, elFeat, sheet, restyled, cursor, ppc, deepScans>>
  /\ UNCHANGED nonPageVars

\* A delayed scan calls performDeepScan.
DeepScanStart ==
  /\ ppc = "ready"
  /\ deepScans < MaxDeepScans
  /\ deepScans' = deepScans + 1
  /\ cursor' = 1
  /\ ppc' = "deep"
  /\ UNCHANGED <<els, elFeat, sheet, restyled, removed, effects>>
  /\ UNCHANGED nonPageVars

\* performDeepScan, loop head: a hidden element that is likely a cookie
\* element is forced visible; the loop passes every other element.
DeepScanNext ==
  /\ ppc = "deep"
  /\ IF cursor \notin ElementIndices
     THEN /\ ppc' = "ready"
          /\ cursor' = 0
          /\ UNCHANGED <<restyled, effects>>
     ELSE IF elFeat[cursor].hidden /\ elFeat[cursor].likely
     THEN /\ restyled' = cursor
          /\ effects' = effects \cup {"restyle"}
          /\ ppc' = "forced"
          /\ UNCHANGED cursor
     ELSE /\ cursor' = cursor + 1
          /\ UNCHANGED <<restyled, effects, ppc>>
  /\ UNCHANGED <<els, elFeat, sheet, removed, deepScans>>
  /\ UNCHANGED nonPageVars

\* performDeepScan, loop body: processBanner if the element is now a valid
\* banner, then the inline style is restored.
DeepScanVisit(outcome) ==
  /\ ppc = "forced"
  /\ IF ValidBanner(cursor)
     THEN /\ removed' = IF outcome = "dismissed" THEN removed \cup {cursor} ELSE removed
          /\ effects' = effects \cup ProcessEffects(outcome)
     ELSE /\ outcome = "nothing-clicked"
          /\ UNCHANGED <<removed, effects>>
  /\ restyled' = 0
  /\ cursor' = cursor + 1
  /\ ppc' = "deep"
  /\ UNCHANGED <<els, elFeat, sheet, deepScans>>
  /\ UNCHANGED nonPageVars

NextPage ==
  \/ Initialize
  \/ \E i \in ElementIndices, outcome \in ProcessOutcomes : ScanProcesses(i, outcome)
  \/ DeepScanStart
  \/ DeepScanNext
  \/ \E outcome \in ProcessOutcomes : DeepScanVisit(outcome)

SpecPage == InitPage /\ [][NextPage]_vars

(***************************************************************************)
(* C12: the only changes the agent makes to the page are clicks, toggles   *)
(* and selects on action elements, and a banner no click dismissed is      *)
(* displayed exactly when the page itself displays it: the agent does not  *)
(* hide, remove or restyle it.                                             *)
(***************************************************************************)
C12_OnlyActsOnControls ==
  /\ effects \subseteq {"click", "toggle", "select"}
  /\ \A i \in ElementIndices : i \notin removed => (Displayed(i) <=> PageShows(i))

(***************************************************************************)
(* The banner classifier: isValidCookieBanner with isExcludedElement,      *)
(* isKnownCookieFramework, containsCookieKeywords (and the multi-language  *)
(* detector it asks first), hasValidCookieContext and                      *)
(* hasValidCookieButtons.  The content confidence is in hundredths, the    *)
(* scores of calculateContextScore and hasValidCookieContext in tenths.    *)
(* The page language is English.                                           *)
(***************************************************************************)
\* What getComputedStyle and getBoundingClientRect give hasValidCookieContext.
Layout(well, pos, full, center, side, size, parent, overlay) ==
  [isWellPositioned |-> well, isBannerPosition |-> pos, isFullWidth |-> full,
   isCenterModal |-> center, isSideBanner |-> side, isReasonableSize |-> size,
   parentContext |-> parent, hasOverlayCharacteristics |-> overlay]

FixedBottomBar == Layout(TRUE, TRUE, TRUE, FALSE, FALSE, TRUE, FALSE, TRUE)
StaticBox == Layout(FALSE, FALSE, FALSE, FALSE, FALSE, TRUE, FALSE, FALSE)
StaticBoxInCookieParent == Layout(FALSE, FALSE, FALSE, FALSE, FALSE, TRUE, TRUE, FALSE)

\* sized: isElementVisible and hasValidBannerSize; buttons: the joined texts
\* of the node's buttons.
Candidate(tag, cls, id, text, layout, buttons, sized) ==
  [tag |-> tag, cls |-> cls, id |-> id, text |-> text, role |-> "", inForm |-> FALSE,
   layout |-> layout, buttons |-> buttons, sized |-> sized]

CandidatePool ==
  { Candidate("div", "cookie-notice", "", "This website uses cookies. Cookie policy",
              FixedBottomBar, "accept reject", TRUE),
    Candidate("div", "cookie-notice", "", "This website uses cookies. Cookie policy",
              FixedBottomBar, "accept reject", FALSE),
    Candidate("div", "notice", "", "This website uses cookies. Accept? Cookie policy",
              StaticBox, "accept reject", TRUE),
    Candidate("div", "notice", "", "This website uses cookies. Accept? Cookie policy",
              StaticBoxInCookieParent, "accept reject", TRUE),
    Candidate("div", "notice", "", "This website uses cookies. Accept? Cookie policy",
              FixedBottomBar, "", TRUE),
    Candidate("div", "notice", "", "We use cookies on this website. Accept or decline. Cookie policy",
              FixedBottomBar, "accept decline", TRUE),
    Candidate("div", "notice", "", "We use cookies", FixedBottomBar, "ok", TRUE),
    Candidate("div", "notice", "", "Cookies (GDPR)", FixedBottomBar, "ok", TRUE),
    Candidate("div", "notice", "", "We use cookies (GDPR). Please wait", FixedBottomBar,
              "ok", TRUE),
    Candidate("div", "notice", "", "Add to cart. We use cookies (GDPR)", FixedBottomBar,
              "ok", TRUE),
    Candidate("div", "promo", "", "Subscribe to our newsletter", FixedBottomBar,
              "subscribe", TRUE),
    Candidate("div", "", "onetrust-banner-sdk", "We use cookies", StaticBox, "", TRUE),
    Candidate("div", "", "onetrust-banner-sdk", "We use cookies", StaticBox, "", FALSE),
    Candidate("div", "", "onetrust-banner-sdk",
              "We use cookies in order to improve your experience", FixedBottomBar,
              "accept reject", TRUE),
    Candidate("footer", "cookiebot", "", "We use cookies", FixedBottomBar,
              "accept reject", TRUE) }

\* The patterns successful runs have stored for the domain.
LearnedPatterns == {{}, {"cookies", "reject all"}}

\* The buttons calculateRejectScore is called on.
ScoredButtons ==
  ButtonPool \cup {Btn("button", "Reject all cookies", "Reject", "", "btn-reject", ""),
                   Btn("button", "Reject cookies", "", "", "btn", ""),
                   Btn("button", "Decline cookies", "", "", "btn", "")}

\* MultiLanguageDetector.containsCookieContent(text), element = null.
containsCookieContent(text) ==
  LET normalizedText == Trim(ToLower(text))
      englishPatterns ==
        {"cookie", "cookies",
         "consent", "agree", "accept", "allow", "approve",
         "reject", "decline", "deny", "refuse", "dismiss", "close", "no thanks",
         "privacy", "data protection", "personal data",
         "manage", "customize", "preferences", "settings", "options",
         "necessary", "essential", "required", "functional", "strictly necessary"}
      hasEnglishKeywords == IncludesAny(normalizedText, englishPatterns)
      contextScore ==
          (IF IncludesAny(normalizedText, {"gdpr", "rgpd", "dsgvo", "rodo"}) THEN 2 ELSE 0)
        + (IF IncludesAny(normalizedText, {"onetrust", "cookiebot", "trustarc", "didomi"})
           THEN 3 ELSE 0)
  IN text # "" /\ hasEnglishKeywords /\ contextScore >= 1

calculateContextScore(lowerContent) ==
  Min(  (IF IncludesAny(lowerContent, {"this website", "this site"}) THEN 2 ELSE 0)
      + (IF IncludesAny(lowerContent, {"we use", "we collect"}) THEN 2 ELSE 0)
      + (IF IncludesAny(lowerContent, {"your experience", "browsing experience"})
         THEN 1 ELSE 0)
      + (IF IncludesAny(lowerContent, {"third party", "partners"}) THEN 1 ELSE 0), 5)

exclusionPatterns ==
  { "add to cart", "shopping cart", "checkout", "payment", "order now",
    "buy now", "purchase", "price", "discount", "sale", "shipping cost",
    "total price", "subtotal", "tax", "coupon", "promo code",
    "sign in", "sign up", "login", "register", "account", "profile",
    "username", "password", "email address", "forgot password",
    "create account", "user registration", "member login",
    "main menu", "navigation", "search results", "filter by", "sort by",
    "previous page", "next page", "page navigation", "breadcrumb",
    "back to top", "scroll to", "jump to section",
    "play video", "watch now", "download", "share this", "like this",
    "subscribe", "newsletter signup", "notification settings",
    "video player", "audio controls", "media gallery",
    "error message", "warning", "success message", "loading", "please wait",
    "try again", "refresh page", "connection error", "server error",
    "page not found", "404 error", "access denied",
    "code snippet", "documentation", "api reference", "tutorial",
    "download source", "github repository", "stack trace",
    "leave a comment", "rate this", "review this", "feedback form",
    "contact us", "customer support", "help center" }

frameworkKeywords ==
  { "optanon", "onetrust", "cookiebot", "trustarc", "quantcast",
    "didomi", "usercentrics", "termly", "iubenda", "cookiepro" }

\* confidenceScore of containsCookieKeywords.
confidenceScore(lowerContent, domainPatterns) ==
  LET primaryKeywords ==
        {"cookie", "cookies", "consent", "privacy", "gdpr", "ccpa",
         "datenschutz", "politique", "politica", "privacidad"}
      secondaryKeywords ==
        {"accept", "decline", "reject", "allow", "deny", "manage", "preferences",
         "tracking", "analytics", "functional", "marketing", "necessary",
         "third party", "advertising", "personalization", "legitimate interest"}
      bannerPhrases ==
        {"we use cookies", "this website uses", "we collect information",
         "improve your experience", "personalize content", "analyze traffic",
         "for marketing purposes", "third-party cookies", "essential cookies",
         "functional cookies", "performance cookies", "targeting cookies"}
      legalTerms ==
        {"legal basis", "legitimate interest", "data processing",
         "cookie policy", "privacy policy", "terms of service",
         "data protection", "user consent", "opt-out"}
  IN  (IF IncludesAny(lowerContent, primaryKeywords) THEN 30 ELSE 0)
    + (IF IncludesAny(lowerContent, secondaryKeywords) THEN 20 ELSE 0)
    + (IF IncludesAny(lowerContent, domainPatterns) THEN 15 ELSE 0)
    + (IF IncludesAny(lowerContent, bannerPhrases) THEN 25 ELSE 0)
    + (IF IncludesAny(lowerContent, legalTerms) THEN 10 ELSE 0)
    + calculateContextScore(lowerContent)

ContentThreshold == 70

containsCookieKeywords(text, withDetector, domainPatterns) ==
  LET lowerContent == ToLower(text)
  IN IF withDetector /\ containsCookieContent(text) THEN TRUE
     ELSE IF IncludesAny(lowerContent, exclusionPatterns) THEN FALSE
     ELSE IF IncludesAny(lowerContent, frameworkKeywords) THEN TRUE
     ELSE confidenceScore(lowerContent, domainPatterns) >= ContentThreshold

isExcludedElement(element) ==
  LET tagName == ToLower(element.tag)
      className == ToLower(element.cls)
      id == ToLower(element.id)
      lowerText == ToLower(element.text)
      InAny(words) == \E w \in words :
                        Includes(className, w) \/ Includes(id, w) \/ Includes(lowerText, w)
      InName(words) == \E w \in words : Includes(className, w) \/ Includes(id, w)
      commercePatterns ==
        {"cart", "shop", "buy", "price", "checkout", "payment",
         "product", "order", "purchase", "sale", "discount",
         "add to cart", "buy now", "add to bag", "wishlist",
         "shipping", "delivery", "total", "subtotal", "tax"}
      uiPatterns ==
        {"tooltip", "dropdown", "modal", "sidebar", "menu",
         "search", "filter", "sort", "pagination", "breadcrumb",
         "tab", "accordion", "dialog"}
      developmentPatterns ==
        {"github", "gitlab", "bitbucket", "commit", "repository", "pull request",
         "issue", "fork", "clone", "branch", "merge", "code review",
         "stack overflow", "stackoverflow", "npm", "yarn", "webpack",
         "docker", "kubernetes", "aws", "azure", "gcp"}
      socialPatterns ==
        {"share", "like", "follow", "subscribe", "comment",
         "facebook", "twitter", "linkedin", "instagram", "youtube",
         "social", "feed", "post", "tweet", "pin"}
      contentPatterns ==
        {"article", "blog", "news", "content", "main", "section",
         "sidebar", "widget", "advertisement", "ad-"}
  IN \/ tagName \in {"nav", "header", "footer"}
     \/ element.role \in {"navigation", "menubar", "tablist"}
     \/ /\ tagName = "form" \/ element.inForm
        /\ IncludesAny(lowerText, {"login", "sign in", "email", "password", "username",
                                   "register"})
     \/ InAny(commercePatterns)
     \/ tagName \in {"video", "audio", "iframe"}
     \/ IncludesAny(className, {"video", "player", "media", "carousel"})
     \/ InName(uiPatterns) /\ ~InAny({"cookie", "consent", "privacy", "gdpr"})
     \/ InAny(developmentPatterns)
     \/ InName(socialPatterns) /\ ~IncludesAny(lowerText, {"cookie", "consent", "privacy"})
     \/ /\ IncludesAny(className, {"notification", "alert", "banner", "toast"})
        /\ ~IncludesAny(lowerText, {"cookie", "privacy", "consent", "gdpr"})
     \/ /\ tagName \in contentPatterns \/ InName(contentPatterns)
        /\ ~InAny({"cookie", "consent", "privacy", "gdpr"})

frameworkIdentifiers ==
  { "cookiebot", "onetrust", "trustarc", "quantcast", "didomi",
    "usercentrics", "termly", "iubenda", "optanon" }

isKnownCookieFramework(element) ==
  \E fw \in frameworkIdentifiers :
    Includes(ToLower(element.cls), fw) \/ Includes(ToLower(element.id), fw)

\* contextScore of hasValidCookieContext.
contextScore(l) ==
    (IF l.isWellPositioned THEN 3 ELSE 0)
  + (IF l.isBannerPosition /\ l.isFullWidth THEN 4 ELSE 0)
  + (IF l.isCenterModal THEN 4 ELSE 0)
  + (IF l.isSideBanner THEN 2 ELSE 0)
  + (IF l.isReasonableSize THEN 2 ELSE 0)
  + (IF l.parentContext THEN 3 ELSE 0)
  + (IF l.hasOverlayCharacteristics THEN 2 ELSE 0)

ContextThreshold == 5

hasValidCookieContext(element) ==
  isKnownCookieFramework(element) \/ contextScore(element.layout) >= ContextThreshold

hasValidCookieButtons(element) ==
  /\ element.buttons # ""
  /\ IncludesAny(element.buttons,
                 {"accept", "decline", "reject", "allow", "deny", "manage",
                  "ok", "close", "dismiss", "preferences", "settings"})

\* isValidCookieBanner of a node that is not in processedBanners.
isValidCookieBanner(element, withDetector, domainPatterns) ==
  IF ~element.sized THEN FALSE
  ELSE IF isExcludedElement(element) THEN FALSE
  ELSE IF isKnownCookieFramework(element) THEN TRUE
  ELSE /\ containsCookieKeywords(element.text, withDetector, domainPatterns)
       /\ hasValidCookieContext(element)
       /\ hasValidCookieButtons(element)

InitClassify ==
  /\ cand \in CandidatePool
  /\ detector \in BOOLEAN
  /\ learned \in LearnedPatterns
  /\ scored \in ScoredButtons
  /\ content = "none"
  /\ verdict = "none"
  /\ rejectScore = -1
  /\ ScanIdle
  /\ AgentIdle
  /\ FlowIdle
  /\ HybridIdle
  /\ TimedIdle
  /\ PageIdle
  /\ HistoryIdle
  /\ LearnIdle
  /\ AdviceIdle
  /\ LogIdle
  /\ CacheIdle
  /\ DifficultyIdle
  /\ OptimIdle
  /\ ClickIdle
  /\ KillerIdle
  /\ TeardownIdle
  /\ CategoryIdle
  /\ DebounceIdle

\* containsCookieKeywords is called on the node's text.
ContentCheck ==
  /\ content = "none"
  /\ content' = IF containsCookieKeywords(cand.text, detector, learned)
                THEN "cookie" ELSE "other"
  /\ UNCHANGED <<cand, detector, learned, scored, verdict, rejectScore>>
  /\ UNCHANGED nonClassifyVars

\* isValidCookieBanner is called on the node.
Validate ==
  /\ verdict = "none"
  /\ verdict' = IF isValidCookieBanner(cand, detector, learned)
                THEN "banner" ELSE "rejected"
  /\ UNCHANGED <<cand, detector, learned, scored, content, rejectScore>>
  /\ UNCHANGED nonClassifyVars

\* calculateRejectScore is called on a button of the node.
ScoreButton ==
  /\ rejectScore = -1
  /\ rejectScore' = calculateRejectScore(FullText(scored), scored, cand.cls)
  /\ UNCHANGED <<cand, detector, learned, scored, content, verdict>>
  /\ UNCHANGED nonClassifyVars

NextClassify ==
  \/ ContentCheck
  \/ Validate
  \/ ScoreButton

SpecClassify == InitClassify /\ [][NextClassify]_vars

(***************************************************************************)
(* C13: the score calculateRejectScore returns is within [0, 1], and so is *)
(* the confidence containsCookieKeywords computes for a text it scores     *)
(* (one the detector, the exclusion patterns and the framework keywords    *)
(* have not decided).                                                      *)
(***************************************************************************)
ReachesScoring(text) ==
  /\ ~(detector /\ containsCookieContent(text))
  /\ ~IncludesAny(ToLower(text), exclusionPatterns)
  /\ ~IncludesAny(ToLower(text), frameworkKeywords)

C13_ScoresInUnitInterval ==
  /\ rejectScore # -1 => rejectScore \in 0..10
  /\ content # "none" /\ ReachesScoring(cand.text) =>
       confidenceScore(ToLower(cand.text), learned) \in 0..100

(***************************************************************************)
(* C14: containsCookieKeywords returns false for every text that contains  *)
(* an exclusion phrase.                                                    *)
(***************************************************************************)
C14_ExclusionWins ==
  content # "none" /\ IncludesAny(ToLower(cand.text), exclusionPatterns) =>
    content = "other"

(***************************************************************************)
(* C15: isValidCookieBanner accepts every visible node of at least the     *)
(* minimum size whose class or id carries a framework identifier.          *)
(***************************************************************************)
C15_FrameworkAccepted ==
  verdict # "none" /\ cand.sized /\ isKnownCookieFramework(cand) => verdict = "banner"

(***************************************************************************)
(* C16: a node isValidCookieBanner accepts that has no framework name in   *)
(* its class, id or text has a content confidence of at least 0.7 and a    *)
(* contextual score of at least 0.5.                                       *)
(***************************************************************************)
NamesFramework(element) ==
  \E fw \in frameworkKeywords \cup frameworkIdentifiers :
    \/ Includes(ToLower(element.cls), fw)
    \/ Includes(ToLower(element.id), fw)
    \/ Includes(ToLower(element.text), fw)

C16_AcceptedMeetsThresholds ==
  verdict = "banner" /\ ~NamesFramework(cand) =>
    /\ confidenceScore(ToLower(cand.text), learned) >= ContentThreshold
    /\ contextScore(cand.layout) >= ContextThreshold

(***************************************************************************)
(* HybridCoordinator.recordOutcome, the stored attempts of one domain over *)
(* many calls.  An attempt is its serial number (its timestamp); a call in *)
(* which localStorage throws stores nothing.                               *)
(***************************************************************************)
InitHistory ==
  /\ domainAttempts = <<>>
  /\ ledger = <<>>
  /\ outcomes = 0
  /\ storeFailures = 0
  /\ ScanIdle
  /\ AgentIdle
  /\ FlowIdle
  /\ HybridIdle
  /\ TimedIdle
  /\ PageIdle
  /\ ClassifyIdle
  /\ LearnIdle
  /\ AdviceIdle
  /\ LogIdle
  /\ CacheIdle
  /\ DifficultyIdle
  /\ OptimIdle
  /\ ClickIdle
  /\ KillerIdle
  /\ TeardownIdle
  /\ CategoryIdle
  /\ DebounceIdle

\* recordOutcome, the try block: push, slice(-50), setItem.
StoreOutcome ==
  /\ outcomes < MaxOutcomes
  /\ outcomes' = outcomes + 1
  /\ domainAttempts' = StoreAttempt(domainAttempts, outcomes + 1)
  /\ ledger' = Append(ledger, outcomes + 1)
  /\ UNCHANGED storeFailures
  /\ UNCHANGED nonHistoryVars

\* recordOutcome, the catch block: getItem or setItem threw.
StoreFails ==
  /\ outcomes < MaxOutcomes
  /\ storeFailures < MaxStoreFailures
  /\ outcomes' = outcomes + 1
  /\ storeFailures' = storeFailures + 1
  /\ UNCHANGED <<domainAttempts, ledger>>
  /\ UNCHANGED nonHistoryVars

NextHistory ==
  \/ StoreOutcome
  \/ StoreFails

SpecHistory == InitHistory /\ [][NextHistory]_vars

(***************************************************************************)
(* C18: the stored history of a domain holds at most 50 attempts, and they *)
(* are the most recently stored ones, in the order they were stored.       *)
(***************************************************************************)
C18_LastFiftyInOrder ==
  LET kept == Len(domainAttempts)
      all == Len(ledger)
  IN /\ kept <= HistoryKeep
     /\ kept = Min(all, HistoryKeep)
     /\ \A i \in 1..kept : domainAttempts[i] = ledger[all - kept + i]

C18_Witness ==
  /\ Len(ledger) > HistoryKeep
  /\ Len(domainAttempts) = HistoryKeep
  /\ storeFailures > 0

(***************************************************************************)
(* QLearningAgent: recordExperience, calculateReward, getQValue, setQValue *)
(* and saveExperience, on the experiences AIEngine.learnFromOutcome builds *)
(* from the calls of HybridCoordinator.recordOutcome.  Rewards and         *)
(* confidences are in hundredths; a Q-value is in hundredths divided by    *)
(* QUnit, which keeps the learning-rate step of every update exact.        *)
(***************************************************************************)
SaveEvery == 10
SlowMs == 1000

RECURSIVE Pow10(_)
Pow10(n) == IF n = 0 THEN 1 ELSE 10 * Pow10(n - 1)

QUnit == Pow10(MaxExperiences)

QState(fw, position, buttonCount, language) ==
  [framework |-> fw, position |-> position, buttonCount |-> buttonCount,
   language |-> language]

\* recordOutcome passes the strategy object as the state: it has none of the
\* four fields stateToString reads, and each reads as undefined.
StrategyAsState == QState("undefined", "undefined", "undefined", "undefined")

\* A result recordOutcome is called with: executeStrategy's result, whose
\* processingTime is the time the strategy took, in ms.
Outcome(method, success, confidence, processingTime) ==
  [method |-> method, success |-> success, confidence |-> confidence,
   processingTime |-> processingTime]

OutcomePool ==
  { Outcome("rule-based-primary", TRUE, 100, 400),
    Outcome("rule-based-primary", TRUE, 60, 1500),
    Outcome("rule-based-only", FALSE, 0, 1500),
    Outcome("parallel-ai-won", TRUE, 100, 400),
    Outcome("parallel-ai-won", FALSE, 0, 400),
    Outcome("ai-primary", TRUE, 70, 1500) }

\* result.method.includes('ai') ? 'ai' : 'rule-based'
processingMethod(result) == IF result.method \in AIMethods THEN "ai" ELSE "rule-based"

\* The experience learnFromOutcome builds: success and confidence are copied
\* from the outcome, the outcome itself is kept under `outcome`, and the
\* experience has no processingTime of its own.  hasState: experience.state
\* is an object.
learnFromOutcome(state, action, outcome, method) ==
  [hasState |-> TRUE, state |-> state, action |-> action, outcome |-> outcome,
   method |-> method, success |-> outcome.success, confidence |-> outcome.confidence]

\* recordOutcome: learnFromOutcome(strategy, result.method, result, 'ai' or
\* 'rule-based').  The last two stand for a caller with a state of
\* extractState, and for one without a state.
CoordinatorExperiences ==
  { learnFromOutcome(StrategyAsState, o.method, o, processingMethod(o)) : o \in OutcomePool }

ExperiencePool ==
  CoordinatorExperiences
  \cup
  { learnFromOutcome(QState("onetrust", "bottom", "2", "en"), "ai-primary",
                     Outcome("ai-primary", TRUE, 70, 400), "ai"),
    [learnFromOutcome(StrategyAsState, "rule-based-only",
                      Outcome("rule-based-only", TRUE, 80, 400), "rule-based")
       EXCEPT !.hasState = FALSE] }

stateToString(state) ==
  state.framework \o "_" \o state.position \o "_" \o state.buttonCount
    \o "_" \o state.language

QKey(state, action) == stateToString(state) \o "_" \o action

\* this.qTable.get(key) || 0
getQValue(table, state, action) ==
  IF QKey(state, action) \in DOMAIN table THEN table[QKey(state, action)] ELSE 0

setQValue(table, state, action, value) ==
  [k \in DOMAIN table \cup {QKey(state, action)} |->
     IF k = QKey(state, action) THEN value ELSE table[k]]

calculateReward(experience) ==
    (IF experience.success THEN 1000 ELSE -500)
  + experience.confidence * 3
  + (IF experience.method = "rule-based" /\ experience.success THEN 200 ELSE 0)
  - (IF (IF "processingTime" \in DOMAIN experience
          THEN experience.processingTime ELSE 0) > SlowMs
      THEN 100 ELSE 0)

\* The variant that takes the whole step to the reward.
newQFullStep(currentQ, reward) == reward

\* currentQ + learningRate * (reward - currentQ), learningRate 0.1
newQ(currentQ, reward) == currentQ + (reward - currentQ) \div 10

\* What loadExperience found in localStorage: nothing, or a table and the
\* experiences of earlier sessions.
LoadedTable ==
  [k \in {QKey(StrategyAsState, "rule-based-primary")} |-> 500 * QUnit]

InitLearn ==
  /\ \/ /\ qTable = <<>>
        /\ qExperiences = <<>>
     \/ /\ qTable = LoadedTable
        /\ qExperiences \in {[i \in 1..MaxLoaded |-> e] : e \in ExperiencePool}
  /\ qSaved = qTable
  /\ qCalls = 0
  /\ ScanIdle
  /\ AgentIdle
  /\ FlowIdle
  /\ HybridIdle
  /\ TimedIdle
  /\ PageIdle
  /\ ClassifyIdle
  /\ HistoryIdle
  /\ AdviceIdle
  /\ LogIdle
  /\ CacheIdle
  /\ DifficultyIdle
  /\ OptimIdle
  /\ ClickIdle
  /\ KillerIdle
  /\ TeardownIdle
  /\ CategoryIdle
  /\ DebounceIdle

\* recordExperience(experience); saved: localStorage.setItem did not throw.
recordExperience(experience, saved) ==
  /\ qCalls < MaxExperiences
  /\ qCalls' = qCalls + 1
  /\ qExperiences' = Append(qExperiences, experience)
  /\ IF experience.hasState /\ experience.action # ""
     THEN LET reward == calculateReward(experience) * QUnit
              currentQ == getQValue(qTable, experience.state, experience.action)
          IN /\ qTable' = setQValue(qTable, experience.state, experience.action,
                                    newQ(currentQ, reward))
             /\ IF Len(qExperiences') % SaveEvery = 0
                THEN qSaved' = IF saved THEN qTable' ELSE qSaved
                ELSE saved /\ UNCHANGED qSaved
     ELSE /\ saved
          /\ UNCHANGED <<qTable, qSaved>>
  /\ UNCHANGED nonLearnVars

NextLearn ==
  \E experience \in ExperiencePool, saved \in BOOLEAN : recordExperience(experience, saved)

SpecLearn == InitLearn /\ [][NextLearn]_vars

(***************************************************************************)
(* C19: recording an experience that has a state and an action replaces    *)
(* the Q-value of its (state signature, action) key by Q + 0.1 (reward -   *)
(* Q), where Q is the stored value or 0 for a missing entry, and leaves    *)
(* every other entry of the table as it was.                               *)
(***************************************************************************)
LastExperience == qExperiences[Len(qExperiences)]

C19_QUpdate ==
  [][qCalls' = qCalls + 1 =>
       LET e == qExperiences'[Len(qExperiences')]
           k == QKey(e.state, e.action)
           Q == IF k \in DOMAIN qTable THEN qTable[k] ELSE 0
       IN IF e.hasState /\ e.action # ""
          THEN /\ DOMAIN qTable' = DOMAIN qTable \cup {k}
               /\ 10 * (qTable'[k] - Q) = calculateReward(e) * QUnit - Q
               /\ \A j \in DOMAIN qTable \ {k} : qTable'[j] = qTable[j]
          ELSE qTable' = qTable]_vars

\* The third recorded experience updates the entry the second one made, while
\* the first one's entry stands.
C19_Witness ==
  /\ qCalls = 3
  /\ \A i \in 1..3 : qExperiences[Len(qExperiences) - 3 + i].hasState
  /\ LET e1 == qExperiences[Len(qExperiences) - 2]
         e2 == qExperiences[Len(qExperiences) - 1]
         e3 == qExperiences[Len(qExperiences)]
     IN /\ QKey(e2.state, e2.action) = QKey(e3.state, e3.action)
        /\ QKey(e1.state, e1.action) # QKey(e3.state, e3.action)
        /\ qTable[QKey(e3.state, e3.action)] # (calculateReward(e3) * QUnit) \div 10

(***************************************************************************)
(* C20: the reward calculateReward computes for a recorded experience is   *)
(* within [-5, +13].                                                       *)
(***************************************************************************)
C20_RewardInRange ==
  qCalls > 0 =>
    /\ calculateReward(LastExperience) >= -500
    /\ calculateReward(LastExperience) <= 1300

(***************************************************************************)
(* C21: the reward that updates the table for an outcome the coordinator   *)
(* records is +10 on success or -5 on failure, plus 3 times the outcome's  *)
(* confidence, plus 2 for a successful rule-based outcome, minus 1 when    *)
(* the outcome's processing took longer than 1 s.                          *)
(***************************************************************************)
DocumentedReward(outcome) ==
    (IF outcome.success THEN 1000 ELSE -500)
  + outcome.confidence * 3
  + (IF outcome.success /\ outcome.method \notin AIMethods THEN 200 ELSE 0)
  - (IF outcome.processingTime > 1000 THEN 100 ELSE 0)

C21_RewardOfOutcome ==
  [][qCalls' = qCalls + 1 =>
       LET e == qExperiences'[Len(qExperiences')]
           k == QKey(e.state, e.action)
           Q == IF k \in DOMAIN qTable THEN qTable[k] ELSE 0
       IN e.hasState /\ e.action # "" =>
            10 * (qTable'[k] - Q) = DocumentedReward(e.outcome) * QUnit - Q]_vars

(***************************************************************************)
(* QLearningAgent.recommendStrategy as a function of the Q-table, the      *)
(* state and the two Math.random() draws.                                  *)
(***************************************************************************)
NoAdvice == [action |-> "none", method |-> "none", confidence |-> 0, qValue |-> 0]

getActions ==
  << "rule_based_primary", "rule_based_fallback", "ai_text_analysis",
     "ai_visual_analysis", "hybrid_approach", "aggressive_clicking",
     "conservative_hiding" >>

\* The variant that lets a later action of equal value replace the best.
exceedsOrTies(qValue, bestValue) == qValue >= bestValue

\* qValue > bestValue
exceeds(qValue, bestValue) == qValue > bestValue

\* The loop over the actions from position i on, with the best so far.
RECURSIVE BestFrom(_, _, _, _)
BestFrom(table, state, i, bestAction) ==
  IF i > Len(getActions) THEN bestAction
  ELSE BestFrom(table, state, i + 1,
                IF exceeds(getQValue(table, state, getActions[i]),
                           getQValue(table, state, bestAction))
                THEN getActions[i] ELSE bestAction)

ClampConfidence(bestValue) ==
  LET tenth == bestValue \div 10
      atLeast == IF tenth > 40 * QUnit THEN tenth ELSE 40 * QUnit
  IN IF atLeast < 90 * QUnit THEN atLeast ELSE 90 * QUnit

\* explores: Math.random() < epsilon; pick: the index the second draw gives.
recommendStrategy(table, state, explores, pick) ==
  IF explores
  THEN [action |-> getActions[pick], method |-> "exploration",
        confidence |-> 30 * QUnit, qValue |-> 0]
  ELSE LET bestAction == BestFrom(table, state, 1, getActions[1])
       IN [action |-> bestAction, method |-> "exploitation",
           confidence |-> ClampConfidence(getQValue(table, state, bestAction)),
           qValue |-> getQValue(table, state, bestAction)]

\* The state extractState gives for the banner at hand, and another one whose
\* entries must not count.
AdviceState == QState("onetrust", "bottom", "2", "en")
OtherState == QState("none", "top", "3", "de")

StoredValues == {-500 * QUnit, 700 * QUnit}

\* Tables with any subset of the vocabulary stored for AdviceState, and an
\* entry of another state.
AdviceTables ==
  { [k \in {QKey(AdviceState, getActions[i]) : i \in present}
            \cup {QKey(OtherState, getActions[2])} |->
       IF k = QKey(OtherState, getActions[2]) THEN 900 * QUnit
       ELSE IF \E i \in high : k = QKey(AdviceState, getActions[i])
            THEN 700 * QUnit ELSE -500 * QUnit] :
      present \in SUBSET (1..Len(getActions)), high \in SUBSET (1..Len(getActions)) }

InitAdvice ==
  /\ qTable \in AdviceTables
  /\ qExperiences = <<>>
  /\ qSaved = qTable
  /\ qCalls = 0
  /\ recommended = NoAdvice
  /\ ScanIdle
  /\ AgentIdle
  /\ FlowIdle
  /\ HybridIdle
  /\ TimedIdle
  /\ PageIdle
  /\ ClassifyIdle
  /\ HistoryIdle
  /\ LogIdle
  /\ CacheIdle
  /\ DifficultyIdle
  /\ OptimIdle
  /\ ClickIdle
  /\ KillerIdle
  /\ TeardownIdle
  /\ CategoryIdle
  /\ DebounceIdle

Recommend(explores, pick) ==
  /\ recommended' = recommendStrategy(qTable, AdviceState, explores, pick)
  /\ UNCHANGED nonAdviceVars

NextAdvice ==
  \E explores \in BOOLEAN, pick \in 1..Len(getActions) : Recommend(explores, pick)

SpecAdvice == InitAdvice /\ [][NextAdvice]_vars

(***************************************************************************)
(* C22: when recommendStrategy exploits, the action it returns has a       *)
(* stored value for the state signature that is maximal over the seven     *)
(* actions of the vocabulary, and no action earlier in the vocabulary has  *)
(* that maximal value.                                                     *)
(***************************************************************************)
StoredValue(a) ==
  IF QKey(AdviceState, a) \in DOMAIN qTable THEN qTable[QKey(AdviceState, a)] ELSE 0

PositionOf(a) == CHOOSE i \in 1..Len(getActions) : getActions[i] = a

C22_ExploitsFirstMaximal ==
  recommended.method = "exploitation" =>
    /\ \E i \in 1..Len(getActions) : getActions[i] = recommended.action
    /\ \A i \in 1..Len(getActions) :
         StoredValue(getActions[i]) <= StoredValue(recommended.action)
    /\ \A i \in 1..(PositionOf(recommended.action) - 1) :
         StoredValue(getActions[i]) < StoredValue(recommended.action)

\* Two later actions tie for the maximum, and the earlier of them was returned.
C22_Witness ==
  /\ recommended.method = "exploitation"
  /\ recommended.action = getActions[3]
  /\ StoredValue(getActions[3]) = 700 * QUnit
  /\ StoredValue(getActions[6]) = 700 * QUnit
  /\ StoredValue(getActions[1]) < 0

(***************************************************************************)
(* QLearningAgent: the experience log.  recordExperience pushes onto       *)
(* this.experiences; saveExperience writes its last maxExperiences entries *)
(* to storage, every SaveEvery-th length, for an experience with a state   *)
(* and an action.  An experience stands as its serial number.              *)
(***************************************************************************)
maxExperiences == 1000

\* this.experiences.slice(-this.config.maxExperiences)
saveExperience(log) == LastN(log, maxExperiences)

\* loadExperience: nothing stored, or what an earlier session saved.
LoadedLengths == {0} \cup ((maxExperiences - SaveEvery)..maxExperiences)

InitLog ==
  /\ \E n \in LoadedLengths : logMem = [i \in 1..n |-> i]
  /\ logSaved = logMem
  /\ logCalls = 0
  /\ ScanIdle
  /\ AgentIdle
  /\ FlowIdle
  /\ HybridIdle
  /\ TimedIdle
  /\ PageIdle
  /\ ClassifyIdle
  /\ HistoryIdle
  /\ LearnIdle
  /\ AdviceIdle
  /\ CacheIdle
  /\ DifficultyIdle
  /\ OptimIdle
  /\ ClickIdle
  /\ KillerIdle
  /\ TeardownIdle
  /\ CategoryIdle
  /\ DebounceIdle

\* recordExperience; complete: the experience has a state and an action;
\* saved: localStorage.setItem did not throw.
PushExperience(complete, saved) ==
  /\ logCalls < MaxLogCalls
  /\ logCalls' = logCalls + 1
  /\ logMem' = Append(logMem, Len(logMem) + 1)
  /\ IF complete /\ Len(logMem') % SaveEvery = 0
     THEN logSaved' = IF saved THEN saveExperience(logMem') ELSE logSaved
     ELSE saved /\ UNCHANGED logSaved
  /\ UNCHANGED nonLogVars

NextLog == \E complete, saved \in BOOLEAN : PushExperience(complete, saved)

SpecLog == InitLog /\ [][NextLog]_vars

(***************************************************************************)
(* C23: after any number of recordExperience calls the experience log      *)
(* holds at most 1000 entries, in memory and in the persisted copy, and    *)
(* the persisted copy keeps the most recent ones.                          *)
(***************************************************************************)
\* The persisted copy is the last 1000 of the log as it was at some save.
PersistedKeepsRecent ==
  /\ Len(logSaved) <= 1000
  /\ \E n \in 0..Len(logMem) :
       /\ Len(logSaved) = IF n <= 1000 THEN n ELSE 1000
       /\ \A i \in 1..Len(logSaved) : logSaved[i] = logMem[n - Len(logSaved) + i]

C23_LogCapped ==
  /\ Len(logMem) <= 1000
  /\ PersistedKeepsRecent

(***************************************************************************)
(* HybridCoordinator: the complexity cache of one domain in time.          *)
(* analyzeSiteComplexity returns the cached profile or computes one,       *)
(* stores it and arms a timer that deletes the domain's entry an hour      *)
(* later; reset() clears the cache and leaves the timers armed.  A profile *)
(* stands as the serial number of its computation.  Timers fire on time:   *)
(* nothing else runs while one is due.                                     *)
(***************************************************************************)
CacheTtlMs == 3600000

CacheStepMs == CacheTtlMs \div StepsPerHour

NoTimerDue == \A due \in expiryTimers : due > cacheClock

InitCache ==
  /\ siteComplexityCache = 0
  /\ expiryTimers = {}
  /\ cacheClock = 0
  /\ profiles = 0
  /\ lastStore = [profile |-> 0, at |-> 0]
  /\ answer = 0
  /\ ScanIdle
  /\ AgentIdle
  /\ FlowIdle
  /\ HybridIdle
  /\ TimedIdle
  /\ PageIdle
  /\ ClassifyIdle
  /\ HistoryIdle
  /\ LearnIdle
  /\ AdviceIdle
  /\ LogIdle
  /\ DifficultyIdle
  /\ OptimIdle
  /\ ClickIdle
  /\ KillerIdle
  /\ TeardownIdle
  /\ CategoryIdle
  /\ DebounceIdle

\* analyzeSiteComplexity, the cache has the domain: return the entry.
AnalyzeCached ==
  /\ NoTimerDue
  /\ siteComplexityCache # 0
  /\ answer' = siteComplexityCache
  /\ UNCHANGED <<siteComplexityCache, expiryTimers, cacheClock, profiles, lastStore>>
  /\ UNCHANGED nonCacheVars

\* analyzeSiteComplexity, no entry: compute, set, setTimeout(delete, 3600000).
AnalyzeFresh ==
  /\ NoTimerDue
  /\ siteComplexityCache = 0
  /\ profiles < MaxProfiles
  /\ profiles' = profiles + 1
  /\ siteComplexityCache' = profiles + 1
  /\ expiryTimers' = expiryTimers \cup {cacheClock + CacheTtlMs}
  /\ lastStore' = [profile |-> profiles + 1, at |-> cacheClock]
  /\ answer' = profiles + 1
  /\ UNCHANGED cacheClock
  /\ UNCHANGED nonCacheVars

\* The timer callback: siteComplexityCache.delete(domain).
ExpiryFires ==
  /\ \E due \in expiryTimers :
       /\ due <= cacheClock
       /\ expiryTimers' = expiryTimers \ {due}
  /\ siteComplexityCache' = 0
  /\ UNCHANGED <<cacheClock, profiles, lastStore, answer>>
  /\ UNCHANGED nonCacheVars

\* reset(): siteComplexityCache.clear(); no timer is cancelled.
CacheReset ==
  /\ NoTimerDue
  /\ siteComplexityCache # 0
  /\ siteComplexityCache' = 0
  /\ lastStore' = [profile |-> 0, at |-> 0]
  /\ UNCHANGED <<expiryTimers, cacheClock, profiles, answer>>
  /\ UNCHANGED nonCacheVars

CacheClockStep ==
  /\ NoTimerDue
  /\ cacheClock < MaxCacheSteps * CacheStepMs
  /\ cacheClock' = cacheClock + CacheStepMs
  /\ UNCHANGED <<siteComplexityCache, expiryTimers, profiles, lastStore, answer>>
  /\ UNCHANGED nonCacheVars

NextCache ==
  \/ AnalyzeCached
  \/ AnalyzeFresh
  \/ ExpiryFires
  \/ CacheReset
  \/ CacheClockStep

SpecCache == InitCache /\ [][NextCache]_vars

(***************************************************************************)
(* C24: a profile cached for the domain is returned unchanged by every     *)
(* analyzeSiteComplexity call made less than an hour after it was stored,  *)
(* and is not returned by a call made an hour or more after; resets and    *)
(* analyses in any order, also with an earlier expiry timer still pending. *)
(***************************************************************************)
AnalyzeStep == (AnalyzeCached \/ AnalyzeFresh) /\ lastStore.profile # 0

C24_CachedForAnHour ==
  [][AnalyzeStep =>
       IF cacheClock - lastStore.at < 3600000
       THEN answer' = lastStore.profile
       ELSE answer' # lastStore.profile]_vars

(***************************************************************************)
(* HybridCoordinator.getHistoricalDifficulty as a function of the attempts *)
(* stored for a domain, applied to two domains.  An attempt has a success  *)
(* flag, its attempts count and whether its timestamp is within the last   *)
(* seven days.                                                             *)
(***************************************************************************)
NoDifficulty == [num |-> -1, den |-> 1]

StoredAttempt == [success : BOOLEAN, attempts : {1, 4}, recent : BOOLEAN]

RECURSIVE SeqsUpTo(_, _)
SeqsUpTo(S, n) ==
  IF n = 0 THEN {<<>>}
  ELSE SeqsUpTo(S, n - 1) \cup
       {Append(q, x) : q \in {r \in SeqsUpTo(S, n - 1) : Len(r) = n - 1}, x \in S}

RECURSIVE SumAttempts(_)
SumAttempts(q) == IF q = <<>> THEN 0 ELSE Head(q).attempts + SumAttempts(Tail(q))

RecentOf(stored) == SelectSeq(stored, LAMBDA a : a.recent)

SuccessesOf(q) == Cardinality({i \in DOMAIN q : q[i].success})

\* 1 - successRate * 0.7 - Math.min(avgAttempts / 10, 0.3) over the recent
\* attempts, in tenths as num / den; 0.5 when nothing is stored or nothing
\* is recent.
historicalDifficulty(stored) ==
  LET recentAttempts == RecentOf(stored)
      n == Len(recentAttempts)
  IN IF stored = <<>> \/ n = 0
     THEN [num |-> 5, den |-> 1]
     ELSE [num |-> 10 * n - 7 * SuccessesOf(recentAttempts)
                     - Min(SumAttempts(recentAttempts), 3 * n),
           den |-> n]

InitDifficulty ==
  /\ storedA \in SeqsUpTo(StoredAttempt, MaxStored)
  /\ storedB \in SeqsUpTo(StoredAttempt, MaxStored)
  /\ difficultyA = NoDifficulty
  /\ difficultyB = NoDifficulty
  /\ ScanIdle
  /\ AgentIdle
  /\ FlowIdle
  /\ HybridIdle
  /\ TimedIdle
  /\ PageIdle
  /\ ClassifyIdle
  /\ HistoryIdle
  /\ LearnIdle
  /\ AdviceIdle
  /\ LogIdle
  /\ CacheIdle
  /\ OptimIdle
  /\ ClickIdle
  /\ KillerIdle
  /\ TeardownIdle
  /\ CategoryIdle
  /\ DebounceIdle

GetDifficulties ==
  /\ difficultyA = NoDifficulty
  /\ difficultyA' = historicalDifficulty(storedA)
  /\ difficultyB' = historicalDifficulty(storedB)
  /\ UNCHANGED <<storedA, storedB>>
  /\ UNCHANGED nonDifficultyVars

NextDifficulty == GetDifficulties

SpecDifficulty == InitDifficulty /\ [][NextDifficulty]_vars

(***************************************************************************)
(* C25: the historical difficulty is 0.5 when the domain has no outcome of *)
(* the last seven days; otherwise it does not decrease when the recent     *)
(* success rate falls or the average number of attempts rises, and a       *)
(* domain whose recent outcomes all failed gets the highest difficulty.    *)
(***************************************************************************)
\* The first history has no lower success rate and no higher average of
\* attempts than the second: s1/n1 >= s2/n2 and a1/n1 <= a2/n2.
NoHarderThan(q1, q2) ==
  /\ SuccessesOf(q1) * Len(q2) >= SuccessesOf(q2) * Len(q1)
  /\ SumAttempts(q1) * Len(q2) <= SumAttempts(q2) * Len(q1)

cacheTimeout == 30000

DelayedCheckMs == 3000

OptimStepMs == 1000

\* generateScanCacheKey: url, element count and the 30 s window of now.
generateScanCacheKey == [elements |-> domElements, window |-> optNow \div cacheTimeout]

\* cleanExpiredCache
cleanExpiredCache(entries) == {e \in entries : ~(optNow - e.timestamp > cacheTimeout)}

\* cacheScanResult: Map.set under the key, then the cleaning.
cacheScanResult(result, key) ==
  cleanExpiredCache({e \in scanCache : e.key # key}
                    \cup {[key |-> key, result |-> result, timestamp |-> optNow]})

\* findAllCookieBanners of a killer with the processed-set done.
FreshBanners(done) == pageNodes \ done

\* optimizedScan: the cached result under the key, or a scan that is cached.
optimizedScan(key) ==
  IF \E e \in scanCache : e.key = key
  THEN (CHOOSE e \in scanCache : e.key = key).result
  ELSE FreshBanners(cachedDone)

InitOptim ==
  /\ pageNodes \in SUBSET Nodes
  /\ domElements = Cardinality(pageNodes)
  /\ optNow \in {ThrottleMs * 2, cacheTimeout - 2 * OptimStepMs}
  /\ optLastScan = 0
  /\ scanCache = {}
  /\ directDone = {}
  /\ cachedDone = {}
  /\ delayedDue = {}
  /\ pageEvents = MaxPageEvents
  /\ ScanIdle
  /\ AgentIdle
  /\ FlowIdle
  /\ HybridIdle
  /\ TimedIdle
  /\ PageIdle
  /\ ClassifyIdle
  /\ HistoryIdle
  /\ LearnIdle
  /\ AdviceIdle
  /\ LogIdle
  /\ CacheIdle
  /\ DifficultyIdle
  /\ ClickIdle
  /\ KillerIdle
  /\ TeardownIdle
  /\ CategoryIdle
  /\ DebounceIdle

\* The page shows a banner node that is in the document: a style change.
OptimPageShows(b) ==
  /\ pageEvents > 0
  /\ b \notin pageNodes
  /\ pageNodes' = pageNodes \cup {b}
  /\ pageEvents' = pageEvents - 1
  /\ UNCHANGED <<domElements, optNow, optLastScan, scanCache, directDone, cachedDone,
                 delayedDue>>
  /\ UNCHANGED nonOptimVars

\* The page inserts a banner node.
OptimPageInserts(b) ==
  /\ pageEvents > 0
  /\ b \notin pageNodes
  /\ pageNodes' = pageNodes \cup {b}
  /\ domElements' = domElements + 1
  /\ pageEvents' = pageEvents - 1
  /\ UNCHANGED <<optNow, optLastScan, scanCache, directDone, cachedDone, delayedDue>>
  /\ UNCHANGED nonOptimVars

\* The page hides a banner node again: a style change.
OptimPageHides(b) ==
  /\ pageEvents > 0
  /\ b \in pageNodes
  /\ pageNodes' = pageNodes \ {b}
  /\ pageEvents' = pageEvents - 1
  /\ UNCHANGED <<domElements, optNow, optLastScan, scanCache, directDone, cachedDone,
                 delayedDue>>
  /\ UNCHANGED nonOptimVars

\* A scan trigger: scanForBanners in both killers.
OptimScan ==
  /\ pageEvents > 0
  /\ pageEvents' = pageEvents - 1
  /\ IF optNow - optLastScan < ThrottleMs
     THEN UNCHANGED <<optLastScan, scanCache, directDone, cachedDone, delayedDue>>
     ELSE /\ optLastScan' = optNow
          /\ directDone' = directDone \cup FreshBanners(directDone)
          /\ cachedDone' = cachedDone \cup optimizedScan(generateScanCacheKey)
          /\ scanCache' = IF \E e \in scanCache : e.key = generateScanCacheKey
                          THEN scanCache
                          ELSE cacheScanResult(FreshBanners(cachedDone),
                                               generateScanCacheKey)
          /\ delayedDue' = delayedDue \cup {optNow + DelayedCheckMs}
  /\ UNCHANGED <<pageNodes, domElements, optNow>>
  /\ UNCHANGED nonOptimVars

\* The timer of scheduleDelayedCheck: findAllCookieBanners, uncached, in both.
OptimDelayedCheck ==
  /\ \E due \in delayedDue :
       /\ due <= optNow
       /\ delayedDue' = delayedDue \ {due}
  /\ directDone' = directDone \cup FreshBanners(directDone)
  /\ cachedDone' = cachedDone \cup FreshBanners(cachedDone)
  /\ UNCHANGED <<pageNodes, domElements, optNow, optLastScan, scanCache, pageEvents>>
  /\ UNCHANGED nonOptimVars

OptimTick ==
  /\ \A due \in delayedDue : due > optNow
  /\ \E start \in {ThrottleMs * 2, cacheTimeout - 2 * OptimStepMs} :
       /\ optNow >= start
       /\ optNow < start + MaxOptimSteps * OptimStepMs
  /\ optNow' = optNow + OptimStepMs
  /\ UNCHANGED <<pageNodes, domElements, optLastScan, scanCache, directDone, cachedDone,
                 delayedDue, pageEvents>>
  /\ UNCHANGED nonOptimVars

NextOptim ==
  \/ \E b \in Nodes : OptimPageShows(b)
  \/ \E b \in Nodes : OptimPageInserts(b)
  \/ \E b \in Nodes : OptimPageHides(b)
  \/ OptimScan
  \/ OptimDelayedCheck
  \/ OptimTick

SpecOptim == InitOptim /\ [][NextOptim]_vars

(***************************************************************************)
(* C27: on the same page states and scan triggers the killer with the      *)
(* optimizer has processed the same banners as the killer without it, once *)
(* no delayed check is pending.                                            *)
(***************************************************************************)
C27_SameBannersProcessed ==
  delayedDue = {} => cachedDone = directDone

(***************************************************************************)
(* clickButton twice over: AntiEvasionCookieKiller.clickButton and         *)
(* CookieBannerAgent.clickButton called on the same button of the same     *)
(* page, each on its own copy of the page.  The button's click listener    *)
(* does nothing, hides the banner, or toggles it (a panel opener).         *)
(***************************************************************************)
MaxClickCalls == 3

Listeners == {"none", "hide", "toggle"}

\* button.click() delivers a click event; the forEach then dispatches a
\* mousedown, a mouseup and a click MouseEvent to the same button.
DispatchedTypes == <<"mousedown", "mouseup", "click">>

ClickStrategies == <<"click">> \o DispatchedTypes

\* How often the button's click listeners ran.
Activations(events) == Cardinality({n \in DOMAIN events : events[n] = "click"})

\* The banner's visibility after the listener saw the events.
RECURSIVE AfterEvents(_, _, _)
AfterEvents(listener, isShown, events) ==
  IF events = <<>> THEN isShown
  ELSE AfterEvents(listener,
                   IF Head(events) # "click" THEN isShown
                   ELSE IF listener = "hide" THEN FALSE
                   ELSE IF listener = "toggle" THEN ~isShown
                   ELSE isShown,
                   Tail(events))

\* AntiEvasionCookieKiller.clickButton, the timer: without a container the
\* banner counts as still visible.
KillerSuccess(page, isShown) ==
  LET stillVisible == IF page.hasContainer THEN isShown ELSE TRUE
  IN ~stillVisible

\* CookieBannerAgent.clickButton, the timer: isElementVisible(null) is false.
AgentSuccess(page, isShown) ==
  LET stillVisible == IF page.hasContainer THEN isShown ELSE FALSE
  IN ~stillVisible

InitClick ==
  /\ clickPage \in [hasContainer : BOOLEAN, listener : Listeners]
  /\ shownK = TRUE
  /\ shownA = TRUE
  /\ deliveredK = <<>>
  /\ deliveredA = <<>>
  /\ cpc = "idle"
  /\ clickResults = <<>>
  /\ clickCalls = 0
  /\ ScanIdle
  /\ AgentIdle
  /\ FlowIdle
  /\ HybridIdle
  /\ TimedIdle
  /\ PageIdle
  /\ ClassifyIdle
  /\ HistoryIdle
  /\ LearnIdle
  /\ AdviceIdle
  /\ LogIdle
  /\ CacheIdle
  /\ DifficultyIdle
  /\ OptimIdle
  /\ KillerIdle
  /\ TeardownIdle
  /\ CategoryIdle
  /\ DebounceIdle

\* clickButton(button) up to the setTimeout, in both implementations.
ClickNow ==
  /\ cpc = "idle"
  /\ clickCalls < MaxClickCalls
  /\ clickCalls' = clickCalls + 1
  /\ deliveredK' = ClickStrategies
  /\ deliveredA' = ClickStrategies
  /\ shownK' = AfterEvents(clickPage.listener, shownK, ClickStrategies)
  /\ shownA' = AfterEvents(clickPage.listener, shownA, ClickStrategies)
  /\ cpc' = "waiting"
  /\ UNCHANGED <<clickPage, clickResults>>
  /\ UNCHANGED nonClickVars

\* The timers' callbacks, 1000 ms later: both promises resolve.
ClickVerify ==
  /\ cpc = "waiting"
  /\ clickResults' = Append(clickResults,
                            [killer |-> KillerSuccess(clickPage, shownK),
                             agent  |-> AgentSuccess(clickPage, shownA),
                             container |-> clickPage.hasContainer,
                             hidden |-> ~shownK /\ ~shownA])
  /\ cpc' = "idle"
  /\ UNCHANGED <<clickPage, shownK, shownA, deliveredK, deliveredA, clickCalls>>
  /\ UNCHANGED nonClickVars

\* The page shows or hides its banner by itself, on both copies.
PageSetsBanner(isShown) ==
  /\ shownK # isShown \/ shownA # isShown
  /\ shownK' = isShown
  /\ shownA' = isShown
  /\ UNCHANGED <<clickPage, deliveredK, deliveredA, cpc, clickResults, clickCalls>>
  /\ UNCHANGED nonClickVars

NextClick ==
  \/ ClickNow
  \/ ClickVerify
  \/ \E isShown \in BOOLEAN : PageSetsBanner(isShown)

SpecClick == InitClick /\ [][NextClick]_vars

(***************************************************************************)
(* C32: one clickButton call delivers exactly one click activation to the  *)
(* button: after a call of either implementation the button's click        *)
(* listeners have run once for it.                                         *)
(***************************************************************************)
C32_OneActivationPerCall ==
  clickCalls > 0 => Activations(deliveredK) = 1 /\ Activations(deliveredA) = 1

(***************************************************************************)
(* C33: each implementation reports success only for a call whose button   *)
(* has a banner container that is no longer visible when the timer runs,   *)
(* and both report the same success for the same page state.               *)
(***************************************************************************)
C33_SameVerifiedSuccess ==
  \A n \in DOMAIN clickResults :
    /\ clickResults[n].killer => clickResults[n].container /\ clickResults[n].hidden
    /\ clickResults[n].agent => clickResults[n].container /\ clickResults[n].hidden
    /\ clickResults[n].killer = clickResults[n].agent

(***************************************************************************)
(* AntiEvasionCookieKiller.processBanner: the validation, the race of the  *)
(* hybrid coordinator (or of a new CookieBannerAgent) against a timer, the *)
(* aggressive button search and the multi-step flow.  What the coordinator,*)
(* the agent, findAndClickRejectButton and handleMultiStepConsent give is  *)
(* one of the results their return statements build; a missing field reads *)
(* as "undefined".                                                         *)
(***************************************************************************)
MaxKillerCalls == 2

KillerStepMs == 1000

HybridRaceMs == 5000

FallbackRaceMs == 3000

\* null, a string and two elements.
KillerInputs == {"null", "text", "b1", "b2"}

IsElementInput(banner) == banner \in {"b1", "b2"}

KillerResult(success, method) == [success |-> success, method |-> method]

\* hybridCoordinator.processBanner resolves with a strategy's result.
CoordinatorResults ==
  {KillerResult(TRUE, "rule-based-primary"), KillerResult(TRUE, "parallel-ai-won"),
   KillerResult(FALSE, "rule-based-only"), KillerResult(FALSE, "parallel-fallback")}

\* CookieBannerAgent.processBanner
AgentRunResults ==
  {KillerResult(TRUE, "button-click"), KillerResult(FALSE, "no-safe-button-found")}

\* findAndClickRejectButton: {success, confidence, buttonText | reason | error}.
AggressiveResults == {KillerResult(TRUE, "undefined"), KillerResult(FALSE, "undefined")}

\* handleMultiStepConsent
MultiStepResults ==
  {KillerResult(TRUE, "multi-step-preferences"), KillerResult(TRUE, "progressive-flow"),
   KillerResult(FALSE, "undefined")}

RaceBound == IF kpc = "hybrid-race" THEN HybridRaceMs ELSE FallbackRaceMs

\* The promise of the call settles.
KillerSettles(settled, result) ==
  /\ kReturned' = Append(kReturned,
                         [settled |-> settled, success |-> result.success,
                          method |-> result.method, stages |-> kStages,
                          timedOut |-> kTimedOut])
  /\ kpc' = "idle"
  /\ kElapsed' = 0
  /\ kStages' = {}
  /\ kTimedOut' = "none"

\* The catch of processBanner.
KillerCatch == KillerSettles("resolved", KillerResult(FALSE, "error-occurred"))

InitKiller ==
  /\ kCoordinator \in BOOLEAN
  /\ kProcessed = {}
  /\ kpc = "idle"
  /\ kElapsed = 0
  /\ kStages = {}
  /\ kTimedOut = "none"
  /\ kReturned = <<>>
  /\ kCalls = 0
  /\ ScanIdle
  /\ AgentIdle
  /\ FlowIdle
  /\ HybridIdle
  /\ TimedIdle
  /\ PageIdle
  /\ ClassifyIdle
  /\ HistoryIdle
  /\ LearnIdle
  /\ AdviceIdle
  /\ LogIdle
  /\ CacheIdle
  /\ DifficultyIdle
  /\ OptimIdle
  /\ ClickIdle
  /\ TeardownIdle
  /\ CategoryIdle
  /\ DebounceIdle

\* processBanner(banner) up to its first await.  constructs: new
\* CookieBannerAgent() does not throw.
KillerProcessBanner(banner, constructs) ==
  /\ kpc = "idle"
  /\ kCalls < MaxKillerCalls
  /\ kCalls' = kCalls + 1
  /\ IF ~IsElementInput(banner)
     THEN /\ KillerSettles("resolved", KillerResult(FALSE, "invalid-element"))
          /\ UNCHANGED kProcessed
     ELSE IF banner \in kProcessed
     THEN /\ KillerSettles("resolved", KillerResult(FALSE, "already-processed"))
          /\ UNCHANGED kProcessed
     ELSE /\ kProcessed' = kProcessed \cup {banner}
          /\ IF kCoordinator
             THEN /\ kpc' = "hybrid-race"
                  /\ kStages' = {"hybrid"}
                  /\ UNCHANGED <<kElapsed, kTimedOut, kReturned>>
             ELSE IF constructs
             THEN /\ kpc' = "fallback-race"
                  /\ kStages' = {"fallback-agent"}
                  /\ UNCHANGED <<kElapsed, kTimedOut, kReturned>>
             ELSE KillerCatch
  /\ UNCHANGED kCoordinator
  /\ UNCHANGED nonKillerVars

\* The coordinator or the agent resolves before the timer: a result, or
\* (valid FALSE) something that is not an object.
KillerRaceResolves(result, valid) ==
  /\ kpc \in {"hybrid-race", "fallback-race"}
  /\ kElapsed < RaceBound
  /\ result \in (IF kpc = "hybrid-race" THEN CoordinatorResults ELSE AgentRunResults)
  /\ IF ~valid THEN KillerCatch
     ELSE IF result.success THEN KillerSettles("resolved", result)
     ELSE /\ kpc' = "aggressive"
          /\ kStages' = kStages \cup {"aggressive-search"}
          /\ UNCHANGED <<kElapsed, kTimedOut, kReturned>>
  /\ UNCHANGED <<kCoordinator, kProcessed, kCalls>>
  /\ UNCHANGED nonKillerVars

\* The coordinator or the agent rejects before the timer: the await throws.
KillerRaceRejects ==
  /\ kpc \in {"hybrid-race", "fallback-race"}
  /\ kElapsed < RaceBound
  /\ KillerCatch
  /\ UNCHANGED <<kCoordinator, kProcessed, kCalls>>
  /\ UNCHANGED nonKillerVars

\* The timer of the race rejects with 'Hybrid processing timeout' or
\* 'Fallback timeout'.  safeExecute has returned the race's promise without
\* an exception; the rejection is thrown by the await, into the catch.
KillerTimerFires ==
  /\ kpc \in {"hybrid-race", "fallback-race"}
  /\ kElapsed = RaceBound
  /\ kReturned' = Append(kReturned,
                         [settled |-> "resolved", success |-> FALSE,
                          method |-> "error-occurred", stages |-> kStages,
                          timedOut |-> kpc])
  /\ kpc' = "idle"
  /\ kElapsed' = 0
  /\ kStages' = {}
  /\ UNCHANGED <<kCoordinator, kProcessed, kTimedOut, kCalls>>
  /\ UNCHANGED nonKillerVars

\* findAndClickRejectButton resolves.
KillerAggressiveSettles(result) ==
  /\ kpc = "aggressive"
  /\ IF result.success THEN KillerSettles("resolved", result)
     ELSE /\ kpc' = "multi-step"
          /\ kStages' = kStages \cup {"multi-step"}
          /\ UNCHANGED <<kElapsed, kTimedOut, kReturned>>
  /\ UNCHANGED <<kCoordinator, kProcessed, kCalls>>
  /\ UNCHANGED nonKillerVars

\* handleMultiStepConsent resolves; the final fallback after a failure.
KillerMultiStepSettles(result) ==
  /\ kpc = "multi-step"
  /\ IF result.success THEN KillerSettles("resolved", result)
     ELSE KillerSettles("resolved", KillerResult(FALSE, "all-failed"))
  /\ UNCHANGED <<kCoordinator, kProcessed, kCalls>>
  /\ UNCHANGED nonKillerVars

KillerTick ==
  /\ kpc \in {"hybrid-race", "fallback-race"}
  /\ kElapsed < RaceBound
  /\ kElapsed' = kElapsed + KillerStepMs
  /\ UNCHANGED <<kCoordinator, kProcessed, kpc, kStages, kTimedOut, kReturned, kCalls>>
  /\ UNCHANGED nonKillerVars

NextKiller ==
  \/ \E banner \in KillerInputs, constructs \in BOOLEAN : KillerProcessBanner(banner, constructs)
  \/ \E result \in CoordinatorResults \cup AgentRunResults, valid \in BOOLEAN :
       KillerRaceResolves(result, valid)
  \/ KillerRaceRejects
  \/ KillerTimerFires
  \/ \E result \in AggressiveResults : KillerAggressiveSettles(result)
  \/ \E result \in MultiStepResults : KillerMultiStepSettles(result)
  \/ KillerTick

SpecKiller == InitKiller /\ [][NextKiller]_vars

(***************************************************************************)
(* C34: a call whose hybrid race was ended by the 5 s timer goes on to the *)
(* aggressive reject-button search, and after its failure to the           *)
(* multi-step flow, before it reports failure; it does not end in the      *)
(* catch of processBanner.                                                 *)
(***************************************************************************)
C34_TimeoutFallsThrough ==
  \A n \in DOMAIN kReturned :
    kReturned[n].timedOut = "hybrid-race" =>
      /\ "aggressive-search" \in kReturned[n].stages
      /\ kReturned[n].method # "error-occurred"
      /\ ~kReturned[n].success => "multi-step" \in kReturned[n].stages

(***************************************************************************)
(* C36: every call of processBanner, whatever its input and whatever the   *)
(* coordinator, the agent and the timers do, resolves (never rejects) to a *)
(* result with a boolean success and a method.                             *)
(***************************************************************************)
C36_AlwaysResolvesWithMethod ==
  \A n \in DOMAIN kReturned :
    /\ kReturned[n].settled = "resolved"
    /\ kReturned[n].success \in BOOLEAN
    /\ kReturned[n].method # "undefined"

(***************************************************************************)
(* C35: an experience HybridCoordinator.recordOutcome feeds to the         *)
(* learning agent updates the entry keyed by a banner's state signature    *)
(* (framework, position, button count, language, each defined) and an      *)
(* action of the seven-action vocabulary: an entry recommendStrategy reads *)
(* for that state.                                                         *)
(***************************************************************************)
IsBannerSignature(state) ==
  "undefined" \notin {state.framework, state.position, state.buttonCount, state.language}

InVocabulary(action) == \E i \in DOMAIN getActions : getActions[i] = action

C35_FeedsReadableEntry ==
  (qCalls > 0 /\ LastExperience \in CoordinatorExperiences) =>
    /\ QKey(LastExperience.state, LastExperience.action) \in DOMAIN qTable
    /\ IsBannerSignature(LastExperience.state)
    /\ InVocabulary(LastExperience.action)

(***************************************************************************)
(* cleanup(): the killer with its main observer, its debounce timer, the   *)
(* timers of setupDelayedDetection and the timers of scheduleDelayedCheck. *)
(* A scan is throttled or not as the time since the last one has it;       *)
(* processBanner is taken as done within the scan, and dismisses the       *)
(* banner or leaves it.                                                    *)
(***************************************************************************)
MaxDelayedScans == 2

MaxPendingChecks == 2

\* The loop of scanForBanners and of the delayed check over
\* findAllCookieBanners: processBanner for each banner not yet processed.
TdProcessAll(origin, dismissed) ==
  LET fresh == tdBanners \ tdProcessed
  IN /\ tdProcessed' = tdProcessed \cup fresh
     /\ tdBanners' = tdBanners \ (fresh \cap dismissed)
     /\ tdLate' = IF tdCleaned
                  THEN tdLate \cup {[origin |-> origin, banner |-> b] : b \in fresh}
                  ELSE tdLate

\* scanForBanners; it always ends with scheduleDelayedCheck().
TdScanForBanners(origin, throttled, dismissed) ==
  IF throttled
  THEN UNCHANGED <<tdBanners, tdProcessed, tdDelayedChecks, tdLate>>
  ELSE /\ tdDelayedChecks < MaxPendingChecks
       /\ TdProcessAll(origin, dismissed)
       /\ tdDelayedChecks' = tdDelayedChecks + 1

InitTeardown ==
  /\ tdBanners \in SUBSET Nodes
  /\ tdProcessed = {}
  /\ tdObserver = TRUE
  /\ tdScanTimeout = FALSE
  /\ tdScanIntervals = MaxDelayedScans
  /\ tdDelayedChecks = 0
  /\ tdCleaned = FALSE
  /\ tdLate = {}
  /\ ScanIdle
  /\ AgentIdle
  /\ FlowIdle
  /\ HybridIdle
  /\ TimedIdle
  /\ PageIdle
  /\ ClassifyIdle
  /\ HistoryIdle
  /\ LearnIdle
  /\ AdviceIdle
  /\ LogIdle
  /\ CacheIdle
  /\ DifficultyIdle
  /\ OptimIdle
  /\ ClickIdle
  /\ KillerIdle
  /\ CategoryIdle
  /\ DebounceIdle

\* The page inserts a banner; a connected observer calls handleDOMMutations,
\* which asks for a debounced scan.
TdPageShows(b) ==
  /\ b \notin tdBanners
  /\ tdBanners' = tdBanners \cup {b}
  /\ tdScanTimeout' = (tdObserver \/ tdScanTimeout)
  /\ UNCHANGED <<tdProcessed, tdObserver, tdScanIntervals, tdDelayedChecks, tdCleaned, tdLate>>
  /\ UNCHANGED nonTeardownVars

\* The debounce timer fires.
TdDebounceFires(throttled, dismissed) ==
  /\ tdScanTimeout
  /\ tdScanTimeout' = FALSE
  /\ TdScanForBanners("debounce", throttled, dismissed)
  /\ UNCHANGED <<tdObserver, tdScanIntervals, tdCleaned>>
  /\ UNCHANGED nonTeardownVars

\* A timer of setupDelayedDetection fires.
TdDelayedScanFires(throttled, dismissed) ==
  /\ tdScanIntervals > 0
  /\ tdScanIntervals' = tdScanIntervals - 1
  /\ TdScanForBanners("delayed-scan", throttled, dismissed)
  /\ UNCHANGED <<tdObserver, tdScanTimeout, tdCleaned>>
  /\ UNCHANGED nonTeardownVars

\* The 3 s timer of scheduleDelayedCheck fires; its id was never kept.
TdDelayedCheckFires(dismissed) ==
  /\ tdDelayedChecks > 0
  /\ tdDelayedChecks' = tdDelayedChecks - 1
  /\ TdProcessAll("delayed-check", dismissed)
  /\ UNCHANGED <<tdObserver, tdScanTimeout, tdScanIntervals, tdCleaned>>
  /\ UNCHANGED nonTeardownVars

\* cleanup(): the observers of this.observers are disconnected, the timers
\* of this.scanIntervals and this.scanTimeout are cleared, the sets are
\* emptied.
TdCleanup ==
  /\ ~tdCleaned
  /\ tdObserver' = FALSE
  /\ tdScanIntervals' = 0
  /\ tdScanTimeout' = FALSE
  /\ tdProcessed' = {}
  /\ tdCleaned' = TRUE
  /\ UNCHANGED <<tdBanners, tdDelayedChecks, tdLate>>
  /\ UNCHANGED nonTeardownVars

NextTeardown ==
  \/ \E b \in Nodes : TdPageShows(b)
  \/ \E throttled \in BOOLEAN, dismissed \in SUBSET Nodes : TdDebounceFires(throttled, dismissed)
  \/ \E throttled \in BOOLEAN, dismissed \in SUBSET Nodes : TdDelayedScanFires(throttled, dismissed)
  \/ \E dismissed \in SUBSET Nodes : TdDelayedCheckFires(dismissed)
  \/ TdCleanup

SpecTeardown == InitTeardown /\ [][NextTeardown]_vars

(***************************************************************************)
(* C37: after cleanup() has run, no observer callback or timer started     *)
(* before it calls processBanner.                                          *)
(***************************************************************************)
C37_NothingAfterCleanup ==
  tdCleaned => tdLate = {}

(***************************************************************************)
(* handleCategoryButtons: the loop over the category containers of the     *)
(* document, one container per step.                                       *)
(***************************************************************************)
MaxContainers == 3

\* A category container: its textContent, and the button inside it, if any.
Category(text, button, btnCls, btnText) ==
  [text |-> text, button |-> button, btnCls |-> btnCls, btnText |-> btnText]

CategoryPool ==
  { Category("Marketing cookies Reject", TRUE, "reject-btn", "Reject"),
    Category("Analytics Off", TRUE, "btn", "Off"),
    Category("Strictly necessary cookies Off", TRUE, "toggle-off", "Off"),
    Category("Advertising", FALSE, "", ""),
    Category("Your choices Deny", TRUE, "deny", "Deny") }

\* The selector list handed to container.querySelector.
CategoryButtonSelectors ==
  << [pseudo |-> "class*=", word |-> "reject"],
     [pseudo |-> "class*=", word |-> "deny"],
     [pseudo |-> "class*=", word |-> "off"],
     [pseudo |-> ":contains", word |-> "reject"],
     [pseudo |-> ":contains", word |-> "deny"],
     [pseudo |-> ":contains", word |-> "off"] >>

\* The selectors querySelector parses: :contains is no CSS pseudo-class, and
\* a list with it is a SyntaxError as a whole.
SelectorListParses(selectors) ==
  \A k \in DOMAIN selectors : selectors[k].pseudo # ":contains"

\* container.querySelector(selectors): "throws", or whether a button matches.
CategoryQuery(container, selectors) ==
  IF ~SelectorListParses(selectors) THEN "throws"
  ELSE IF /\ container.button
          /\ \E k \in DOMAIN selectors : Includes(container.btnCls, selectors[k].word)
  THEN "button"
  ELSE "null"

InitCategory ==
  /\ catContainers \in UNION {[1..n -> CategoryPool] : n \in 1..MaxContainers}
  /\ catCursor = 0
  /\ catClicks = {}
  /\ catResult = -1
  /\ ScanIdle
  /\ AgentIdle
  /\ FlowIdle
  /\ HybridIdle
  /\ TimedIdle
  /\ PageIdle
  /\ ClassifyIdle
  /\ HistoryIdle
  /\ LearnIdle
  /\ AdviceIdle
  /\ LogIdle
  /\ CacheIdle
  /\ DifficultyIdle
  /\ OptimIdle
  /\ ClickIdle
  /\ KillerIdle
  /\ TeardownIdle
  /\ DebounceIdle

\* One pass of the for loop: a non-essential container is queried for its
\* button; an exception of the query is caught and logged.
CategoryLoop ==
  /\ catResult = -1
  /\ catCursor < Len(catContainers)
  /\ catCursor' = catCursor + 1
  /\ LET container == catContainers[catCursor + 1]
     IN catClicks' =
          IF /\ isNonEssentialCategory(ToLower(container.text))
             /\ CategoryQuery(container, CategoryButtonSelectors) = "button"
          THEN catClicks \cup {catCursor + 1}
          ELSE catClicks
  /\ UNCHANGED <<catContainers, catResult>>
  /\ UNCHANGED nonCategoryVars

\* return { success: processedCount > 0, count: processedCount }
CategoryReturn ==
  /\ catResult = -1
  /\ catCursor = Len(catContainers)
  /\ catResult' = Cardinality(catClicks)
  /\ UNCHANGED <<catContainers, catCursor, catClicks>>
  /\ UNCHANGED nonCategoryVars

NextCategory == CategoryLoop \/ CategoryReturn

SpecCategory == InitCategory /\ [][NextCategory]_vars

(***************************************************************************)
(* C38: when handleCategoryButtons has returned, it has clicked the button *)
(* of every container classified as non-essential whose button is a        *)
(* reject, deny or off button (by class or by text), and it has clicked    *)
(* nothing in a container classified as essential.                         *)
(***************************************************************************)
HasRejectButton(container) ==
  /\ container.button
  /\ \/ IncludesAny(container.btnCls, {"reject", "deny", "off"})
     \/ IncludesAny(ToLower(container.btnText), {"reject", "deny", "off"})

C38_NonEssentialRejected ==
  catResult # -1 =>
    /\ \A i \in DOMAIN catContainers :
         (isNonEssentialCategory(catContainers[i].text) /\ HasRejectButton(catContainers[i]))
           => i \in catClicks
    /\ \A i \in catClicks : ~IncludesAny(ToLower(catContainers[i].text), essentialKeywords)

(***************************************************************************)
(* C39: a button whose text is one of the very-high or high tier reject    *)
(* phrases and whose aria-label, title and class name hold no accept-like  *)
(* word gets a reject score above 0.7.                                     *)
(***************************************************************************)
TierPhrase(button) == Trim(ToLower(button.text)) \in veryHighPatterns \cup highPatterns

AcceptAttribute(button) ==
  \/ Includes(ToLower(button.aria), "accept")
  \/ Includes(ToLower(button.title), "accept")
  \/ Includes(ToLower(button.cls), "accept")
  \/ Includes(ToLower(button.cls), "allow")

C39_TierPhraseIsEligible ==
  (rejectScore # -1 /\ TierPhrase(scored) /\ ~AcceptAttribute(scored))
    => rejectScore > SafeScore

(***************************************************************************)
(* PerformanceOptimizer.debounce(func, delay, key) and reset().  A         *)
(* debounced function is plain, or calls debounce again with its own key   *)
(* (a scan that asks for a follow-up scan).  Delays differ from call to    *)
(* call, so pending timers fire in any order.                              *)
(***************************************************************************)
MaxDebounceCalls == 3

MaxResets == 1

DebounceKeys == {"default", "scan"}

DebouncedKinds == {"plain", "again"}

\* clearTimeout(id)
ClearTimer(pending, id) == {t \in pending : t.id # id}

\* debounce: the state after its three statements, as <<map, pending>>.
debounce(map, pending, id, func, key) ==
  LET cleared == IF map[key] # 0 THEN ClearTimer(pending, map[key]) ELSE pending
  IN << [map EXCEPT ![key] = id],
        cleared \cup {[id |-> id, key |-> key, func |-> func]} >>

InitDebounce ==
  /\ debouncedFunctions = [key \in DebounceKeys |-> 0]
  /\ dbPending = {}
  /\ dbNextId = 1
  /\ dbRan = <<>>
  /\ dbCalls = 0
  /\ dbResets = 0
  /\ ScanIdle
  /\ AgentIdle
  /\ FlowIdle
  /\ HybridIdle
  /\ TimedIdle
  /\ PageIdle
  /\ ClassifyIdle
  /\ HistoryIdle
  /\ LearnIdle
  /\ AdviceIdle
  /\ LogIdle
  /\ CacheIdle
  /\ DifficultyIdle
  /\ OptimIdle
  /\ ClickIdle
  /\ KillerIdle
  /\ TeardownIdle
  /\ CategoryIdle

\* A caller debounces func under key.
DebounceCall(func, key) ==
  /\ dbCalls < MaxDebounceCalls
  /\ dbCalls' = dbCalls + 1
  /\ LET after == debounce(debouncedFunctions, dbPending, dbNextId, func, key)
     IN /\ debouncedFunctions' = after[1]
        /\ dbPending' = after[2]
  /\ dbNextId' = dbNextId + 1
  /\ UNCHANGED <<dbRan, dbResets>>
  /\ UNCHANGED nonDebounceVars

\* The ids setTimeout has given out at most.
TimerIds == 1..(2 * MaxDebounceCalls)

\* The timer with this id fires: func() runs, which may debounce under the
\* same key, then the key's entry is deleted.
DebounceTimerFires(id) ==
  /\ \E t \in dbPending : t.id = id
  /\ LET t == CHOOSE t \in dbPending : t.id = id
         fired == dbPending \ {t}
         after == IF t.func = "again"
                  THEN debounce(debouncedFunctions, fired, dbNextId, "plain", t.key)
                  ELSE <<debouncedFunctions, fired>>
     IN /\ dbRan' = Append(dbRan, [id |-> t.id, key |-> t.key, func |-> t.func])
        /\ debouncedFunctions' = [after[1] EXCEPT ![t.key] = 0]
        /\ dbPending' = after[2]
        /\ dbNextId' = IF t.func = "again" THEN dbNextId + 1 ELSE dbNextId
  /\ UNCHANGED <<dbCalls, dbResets>>
  /\ UNCHANGED nonDebounceVars

\* reset(): the timers of the Map's values are cleared, the Map is emptied.
DebounceReset ==
  /\ dbResets < MaxResets
  /\ dbResets' = dbResets + 1
  /\ dbPending' = {t \in dbPending : \A key \in DebounceKeys : debouncedFunctions[key] # t.id}
  /\ debouncedFunctions' = [key \in DebounceKeys |-> 0]
  /\ UNCHANGED <<dbNextId, dbRan, dbCalls>>
  /\ UNCHANGED nonDebounceVars

NextDebounce ==
  \/ \E func \in DebouncedKinds, key \in DebounceKeys : DebounceCall(func, key)
  \/ \E id \in TimerIds : DebounceTimerFires(id)
  \/ DebounceReset

SpecDebounce == InitDebounce /\ [][NextDebounce]_vars

(***************************************************************************)
(* C40: at any time at most one timer is pending for each debounce key,    *)
(* also after a debounced function has called debounce with its own key,   *)
(* and reset() leaves no debounced call pending.                           *)
(***************************************************************************)
PendingFor(key) == {t \in dbPending : t.key = key}

C40_OneTimerPerKey ==
  /\ [](\A key \in DebounceKeys : Cardinality(PendingFor(key)) <= 1)
  /\ [][dbResets' = dbResets + 1 => dbPending' = {}]_vars

=============================================================================
